---- MODULE Spec2Model ----
(***************************************************************************)
(* Model of the secops-wrapper SDK request builders:                       *)
(*   secops/chronicle/rule_set.py        cursor pagination, deployment     *)
(*                                       listing with enrichment/filters   *)
(*   secops/chronicle/data_export_v2.py  data export request validation    *)
(*   secops/chronicle/log_types.py       the cache of the log type table   *)
(*   secops/cli                          main, config set and the command  *)
(*                                       handlers                          *)
(*                                                                         *)
(* Python values are encoded as follows.                                   *)
(*   Optional[x]   None is <<>>, a present value v is <<v>>                *)
(*   dict          a function over its keys (a missing key is not in       *)
(*                 DOMAIN); an empty dict is the empty function            *)
(*   JSON body     Null (<<>>) or <<dict>>                                 *)
(*   resource names, bucket paths and log type names are sequences of     *)
(*   one-symbol strings; in resource names the symbol "D" stands for the   *)
(*   literal text curatedRuleSetDeployment, which cannot overlap itself.   *)
(***************************************************************************)
EXTENDS Integers, Sequences, FiniteSets, TLC

VARIABLES
    pc,                    \* "idle" | "fetch" | "done"
    op,                    \* the SDK function the caller invoked
    args,                  \* the caller's arguments of that function
    frame,                 \* arguments of the active _paginated_request call
    page_token,            \* _paginated_request local: page_token
    results,               \* _paginated_request local: results
    rule_set_deployments,  \* list_curated_rule_set_deployments local
    all_rule_sets,         \* list_curated_rule_set_deployments local
    response,              \* _paginated_request local: the last response
    requests,              \* every HTTP request sent on client.session, in order
    responses,             \* the page sequence the server served to the listing
                           \* of one collection (not kept for the joined listing)
    outcome,               \* how the call ended: return value or raised error
    LOG_TYPES_CACHE,       \* log_types._LOG_TYPES_CACHE: None or the table object
    log_type_calls,        \* the calls made on the log_types module, in order
    export_stage,          \* the service's lifecycle stage of the data export
    runs,                  \* the finished calls of _paginated_request, in order
    handler,               \* the CLI command handler that is running, or ""
    exit_status,           \* None, or the status sys.exit was called with
    stderr,                \* what was printed to sys.stderr, in order
    formatted,             \* the values passed to output_formatter, in order
    config,                \* the saved CLI configuration (a dict)
    cli_events             \* what main() did, in order

vars == <<pc, op, args, frame, page_token, results, rule_set_deployments,
          all_rule_sets, response, requests, responses, outcome,
          LOG_TYPES_CACHE, log_type_calls, export_stage, runs, handler,
          exit_status, stderr, formatted, config, cli_events>>

\* the state of one run of the command line program
CliVars == <<handler, exit_status, stderr, formatted, config, cli_events>>

\* the state of the log_types module
LogTypeVars == <<LOG_TYPES_CACHE, log_type_calls>>

\* the state the SDK request builders of the chronicle package never write
OtherVars == <<LogTypeVars, export_stage, runs, CliVars>>

----------------------------------------------------------------------------
(* Bounds of the explored environment *)

MaxRequests == 3
MaxItems == 2
MaxDeployRequests == 2
MaxDeployItems == 2

----------------------------------------------------------------------------
(* Python helpers *)

None == <<>>
Some(v) == <<v>>

Null == <<>>
EmptyDict == <<>>

DictGet(d, k, default) == IF k \in DOMAIN d THEN d[k] ELSE default

DictUpdate(d, e) ==
    [k \in DOMAIN d \cup DOMAIN e |-> IF k \in DOMAIN e THEN e[k] ELSE d[k]]

TruthyStr(s) == s # None /\ s[1] # ""
TruthyInt(n) == n # None /\ n[1] # 0
TruthyDict(d) == d # None /\ DOMAIN d[1] # {}
TruthyBool(b) == b = TRUE

SeqsUpTo(S, n) == UNION {[1..k -> S] : k \in 0..n}

RECURSIVE Flatten(_)
Flatten(ss) == IF ss = <<>> THEN <<>> ELSE Head(ss) \o Flatten(Tail(ss))

----------------------------------------------------------------------------
(* The remote service: what it may answer to one GET of a collection *)

DefaultPageSize == 1000
StatusOK == 200

PathRules == "curatedRules"
PathCategories == "curatedRuleSetCategories"
PathRuleSets == "curatedRuleSetCategories/-/curatedRuleSets"
PathDeployments ==
    "curatedRuleSetCategories/-/curatedRuleSets/-/curatedRuleSetDeployments"

Tokens == {"t1", "t2"}
ErrorTexts == {"denied", "boom"}
OpaqueItems == {"a", "b"}

\* Symbols of resource names: "D" is the text curatedRuleSetDeployment.
NameA == <<"a">>
DeploymentItems ==
    { [name |-> <<"a", "/", "D", "s", "/", "p">>, enabled |-> TRUE,
       alerting |-> TRUE],
      [name |-> <<"b", "/", "D", "s", "/", "p">>, enabled |-> TRUE,
       alerting |-> FALSE],
      [name |-> <<"a", "/", "/", "D", "D">>, alerting |-> TRUE],
      [displayName |-> "old", enabled |-> FALSE] }

RuleSetItems ==
    { [name |-> NameA, displayName |-> "X"],
      [name |-> NameA] }

\* The rule sets served to get_curated_rule_set_deployment: named "ab", "b"
\* and "a", and one without a name.
NamedRuleSetItems ==
    { [name |-> <<"a", "b">>, displayName |-> "AB"],
      [name |-> <<"b">>, displayName |-> "B"],
      [name |-> <<"a">>],
      [displayName |-> "N"] }

ServerItems(path) ==
    IF op = "get_curated_rule_set_deployment" THEN NamedRuleSetItems
    ELSE IF path = PathDeployments THEN DeploymentItems
    ELSE IF path = PathRuleSets THEN RuleSetItems
    ELSE OpaqueItems

\* Every JSON body a 200 response may carry: null, or an object holding
\* optionally the item array (at most room items) and optionally a token.
Bodies(items_key, items, room, tokens) ==
    {Null}
    \cup { Some(EmptyDict) }
    \cup { Some(items_key :> its) : its \in SeqsUpTo(items, room) }
    \cup { Some("nextPageToken" :> t) : t \in tokens }
    \cup { Some((items_key :> its) @@ ("nextPageToken" :> t)) :
             its \in SeqsUpTo(items, room), t \in tokens }

ServerResponses(items_key, items, room, tokens) ==
    { [status_code |-> StatusOK, text |-> "", json |-> b] :
        b \in Bodies(items_key, items, room, tokens) }
    \cup { [status_code |-> 500, text |-> e, json |-> Null] : e \in ErrorTexts }

----------------------------------------------------------------------------
(* rule_set.py: _paginated_request *)

\* Mutant: every page is requested with the caller's start token.
PageParams_startToken(fr, tok) ==
    LET base == [pageSize |-> IF ~TruthyInt(fr.page_size)
                                THEN DefaultPageSize ELSE fr.page_size[1]]
        withToken == IF TruthyStr(fr.start_page_token)
                       THEN DictUpdate(base, [pageToken |-> fr.start_page_token[1]])
                       ELSE base
    IN  IF TruthyDict(fr.extra_params)
          THEN DictUpdate(withToken, fr.extra_params[1])
          ELSE withToken

\* Mutant: the caller's page_size is ignored.
PageParams_fixedSize(fr, tok) ==
    LET base == [pageSize |-> DefaultPageSize]
        withToken == IF TruthyStr(tok)
                       THEN DictUpdate(base, [pageToken |-> tok[1]])
                       ELSE base
    IN  IF TruthyDict(fr.extra_params)
          THEN DictUpdate(withToken, fr.extra_params[1])
          ELSE withToken

\* Mutant: the extra parameters go only into a request without a page token.
PageParams_extraFirstOnly(fr, tok) ==
    LET base == [pageSize |-> IF ~TruthyInt(fr.page_size)
                                THEN DefaultPageSize ELSE fr.page_size[1]]
    IN  IF TruthyStr(tok)
          THEN DictUpdate(base, [pageToken |-> tok[1]])
        ELSE IF TruthyDict(fr.extra_params)
          THEN DictUpdate(base, fr.extra_params[1])
        ELSE base

\* The query parameters of one page request (lines 53-57).
PageParams(fr, tok) ==
    LET base == [pageSize |-> IF ~TruthyInt(fr.page_size)
                                THEN DefaultPageSize ELSE fr.page_size[1]]
        withToken == IF TruthyStr(tok)
                       THEN DictUpdate(base, [pageToken |-> tok[1]])
                       ELSE base
    IN  IF TruthyDict(fr.extra_params)
          THEN DictUpdate(withToken, fr.extra_params[1])
          ELSE withToken

\* response.json() is falsy (line 64): null or an empty object.
FalsyBody(data) == data = Null \/ DOMAIN data[1] = {}

\* Mutant: a body without nextPageToken is read as the token "t1".
NextPageToken_sticky(data) ==
    IF "nextPageToken" \in DOMAIN data[1]
      THEN Some(data[1]["nextPageToken"]) ELSE Some("t1")

\* data.get("nextPageToken") (line 70).
NextPageToken(data) ==
    IF "nextPageToken" \in DOMAIN data[1]
      THEN Some(data[1]["nextPageToken"]) ELSE None

\* Mutant: the status is never checked.
StatusFailed_never(resp) == FALSE

\* response.status_code != 200 (line 60)
StatusFailed(resp) == resp.status_code # StatusOK

\* Mutant: a falsy body drops what was accumulated.
EmptyBodyResult_empty(res) == <<>>

\* what line 65 returns for a falsy body
EmptyBodyResult(res) == res

\* Mutant: the page replaces the accumulator.
Extend_assign(res, curated_sets) == curated_sets

\* results.extend(curated_sets) (line 68)
Extend(res, curated_sets) == res \o curated_sets

APIError(msg) == [kind |-> "raise", type |-> "APIError", message |-> msg]
Returned(v) == [kind |-> "return", value |-> v]
Pending == [kind |-> "pending"]

NewFrame(path, items_key, page_size, start_page_token, extra_params) ==
    [path |-> path, items_key |-> items_key, page_size |-> page_size,
     start_page_token |-> start_page_token, extra_params |-> extra_params]

NoFrame == NewFrame("", "", None, None, None)

----------------------------------------------------------------------------
(* rule_set.py: list_curated_rule_set_deployments, enrichment and filters *)

Marker == "D"

RECURSIVE SplitFirst(_)
\* name.split("curatedRuleSetDeployment")[0]
SplitFirst(s) ==
    IF s = <<>> \/ Head(s) = Marker THEN <<>>
    ELSE <<Head(s)>> \o SplitFirst(Tail(s))

RECURSIVE RStripSlash(_)
\* .rstrip("/")
RStripSlash(s) ==
    IF s # <<>> /\ s[Len(s)] = "/" THEN RStripSlash(SubSeq(s, 1, Len(s) - 1))
    ELSE s

\* Mutant: the trailing separator is kept.
ParentKey_noStrip(deployment) == SplitFirst(DictGet(deployment, "name", <<>>))

\* rule_set_id of lines 272-276
ParentKey(deployment) == RStripSlash(SplitFirst(DictGet(deployment, "name", <<>>)))

RECURSIVE EnrichOne(_, _)
\* the inner loop of lines 277-279 (no break: a later match overwrites)
EnrichOne(deployment, rule_sets) ==
    IF rule_sets = <<>> THEN deployment
    ELSE LET rule_set == Head(rule_sets)
             d2 == IF DictGet(rule_set, "name", <<>>) = ParentKey(deployment)
                     THEN DictUpdate(deployment,
                            [displayName |-> DictGet(rule_set, "displayName", "")])
                     ELSE deployment
         IN  EnrichOne(d2, Tail(rule_sets))

\* lines 271-279
Enrich(deployments, rule_sets) ==
    [i \in 1..Len(deployments) |-> EnrichOne(deployments[i], rule_sets)]

IsEnabled(d) == TruthyBool(DictGet(d, "enabled", FALSE))
IsAlerting(d) == TruthyBool(DictGet(d, "alerting", FALSE))

\* Mutant: the second filter is skipped when the first one ran (elif).
ApplyFilters_elif(deployments, only_enabled, only_alerting) ==
    IF TruthyBool(only_enabled) THEN SelectSeq(deployments, IsEnabled)
    ELSE IF TruthyBool(only_alerting) THEN SelectSeq(deployments, IsAlerting)
    ELSE deployments

\* lines 282-293
ApplyFilters(deployments, only_enabled, only_alerting) ==
    LET afterEnabled == IF TruthyBool(only_enabled)
                          THEN SelectSeq(deployments, IsEnabled)
                          ELSE deployments
    IN  IF TruthyBool(only_alerting)
          THEN SelectSeq(afterEnabled, IsAlerting)
          ELSE afterEnabled

----------------------------------------------------------------------------
(* Calls *)

PageSizes == {None, Some(0), Some(2)}
StartTokens == {None, Some(""), Some("t1")}
ExtraParams == {None, Some([filter |-> "f"])}

\* Mutant: the accumulator of the previous call is kept.
StartFetch_keepResults(opname, a, fr) ==
    /\ pc = "idle"
    /\ UNCHANGED OtherVars
    /\ pc' = "fetch"
    /\ op' = opname
    /\ args' = a
    /\ frame' = fr
    /\ page_token' = fr.start_page_token
    /\ UNCHANGED <<results, rule_set_deployments, all_rule_sets, response,
                   requests, responses, outcome>>

StartFetch(opname, a, fr) ==
    /\ pc = "idle"
    /\ UNCHANGED OtherVars
    /\ pc' = "fetch"
    /\ op' = opname
    /\ args' = a
    /\ frame' = fr
    /\ page_token' = fr.start_page_token
    /\ results' = <<>>
    /\ UNCHANGED <<rule_set_deployments, all_rule_sets, response, requests,
                   responses, outcome>>

\* a direct call of the helper, lines 21-50
paginated_request ==
    \E path \in {PathRules}, ps \in PageSizes, st \in StartTokens,
       ex \in ExtraParams :
        StartFetch("_paginated_request",
                   [page_size |-> ps, start_page_token |-> st,
                    extra_params |-> ex],
                   NewFrame(path, "curatedRules", ps, st, ex))

list_curated_rule_sets ==
    \E ps \in PageSizes, pt \in StartTokens :
        StartFetch("list_curated_rule_sets",
                   [page_size |-> ps, page_token |-> pt],
                   NewFrame(PathRuleSets, "curatedRuleSets", ps, pt, None))

list_curated_rule_set_categories ==
    \E ps \in PageSizes, pt \in StartTokens :
        StartFetch("list_curated_rule_set_categories",
                   [page_size |-> ps, page_token |-> pt],
                   NewFrame(PathCategories, "curatedRuleSetCategories", ps, pt,
                            None))

list_curated_rules ==
    \E ps \in PageSizes, pt \in StartTokens :
        StartFetch("list_curated_rules",
                   [page_size |-> ps, page_token |-> pt],
                   NewFrame(PathRules, "curatedRules", ps, pt, None))

list_curated_rule_set_deployments ==
    \E ps \in {None, Some(2)}, pt \in {None, Some("t2")},
       oe \in BOOLEAN, oa \in BOOLEAN :
        StartFetch("list_curated_rule_set_deployments",
                   [page_size |-> ps, page_token |-> pt, only_enabled |-> oe,
                    only_alerting |-> oa],
                   NewFrame(PathDeployments, "curatedRuleSetDeployments", ps,
                            pt, None))

----------------------------------------------------------------------------
(* One iteration of the loop of _paginated_request, lines 52-74, and the   *)
(* return into the caller.                                                 *)

FetchRequests == SelectSeq(requests, LAMBDA r : r.url = frame.path)

\* the operations that call a listing and go on with its result
JoiningOps ==
    {"list_curated_rule_set_deployments", "get_curated_rule_set_deployment"}

RequestCap ==
    IF op \in JoiningOps \/ (op = "_paginated_request" /\ frame.path = PathCategories)
      THEN MaxDeployRequests
    ELSE MaxRequests

ItemRoom ==
    IF op \in JoiningOps
      THEN MaxDeployItems - Len(results)
      ELSE MaxItems - Len(results)

\* The tokens the explored server hands out.
ServerTokens ==
    IF op \in JoiningOps THEN {"t1"}
    ELSE Tokens \cup {""}

\* Mutant: the caller's paging arguments are passed on to the rule sets.
SecondaryFrame_caller(a) ==
    NewFrame(PathRuleSets, "curatedRuleSets", a.page_size, a.page_token, None)

\* line 270: list_curated_rule_sets(client), hence lines 95-101
SecondaryFrame(a) ==
    NewFrame(PathRuleSets, "curatedRuleSets", None, None, None)

\* _paginated_request returned res to list_curated_rule_set_deployments.
ReturnToDeployments(res, resp) ==
    IF frame.path = PathDeployments
      THEN \* line 260 done; line 270 calls list_curated_rule_sets(client)
           /\ rule_set_deployments' = res
           /\ frame' = SecondaryFrame(args)
           /\ page_token' = None
           /\ results' = <<>>
           /\ response' = None
           /\ pc' = "fetch"
           /\ UNCHANGED <<all_rule_sets, outcome>>
      ELSE \* lines 270-295
           /\ all_rule_sets' = res
           /\ outcome' = Returned(ApplyFilters(Enrich(rule_set_deployments, res),
                                               args.only_enabled,
                                               args.only_alerting))
           /\ pc' = "done"
           /\ results' = res
           /\ response' = resp
           /\ UNCHANGED <<rule_set_deployments, frame, page_token>>

ReturnFromFetch(res, tok, resp) ==
    IF op = "list_curated_rule_set_deployments"
      THEN ReturnToDeployments(res, resp)
    ELSE IF op = "get_curated_rule_set_deployment"
      THEN \* the listing of line 324 returned; lines 321-347 follow
           /\ pc' = "select"
           /\ results' = res
           /\ page_token' = tok
           /\ response' = resp
           /\ UNCHANGED <<rule_set_deployments, all_rule_sets, frame, outcome>>
      ELSE /\ outcome' = Returned(res)
           /\ pc' = "done"
           /\ results' = res
           /\ page_token' = tok
           /\ response' = resp
           /\ UNCHANGED <<rule_set_deployments, all_rule_sets, frame>>

\* The call that is made again and again: _paginated_request itself on the
\* categories collection, against a service with three answers.
RepeatedCall == op = "_paginated_request" /\ frame.path = PathCategories

RepeatResponses ==
    { [status_code |-> StatusOK, text |-> "",
       json |-> Some([curatedRuleSetCategories |-> <<"a">>,
                      nextPageToken |-> "t1"])],
      [status_code |-> StatusOK, text |-> "",
       json |-> Some([curatedRuleSetCategories |-> <<"b">>])],
      [status_code |-> 500, text |-> "boom", json |-> Null] }

\* What the service may answer to the next page request.
PageResponses ==
    IF RepeatedCall THEN RepeatResponses
    ELSE ServerResponses(frame.items_key, ServerItems(frame.path), ItemRoom,
                         ServerTokens)

\* One iteration against a service that answers with one of the responses.
FetchPageFrom(service) ==
    /\ pc = "fetch"
    /\ UNCHANGED OtherVars
    /\ \E resp \in service :
        /\ requests' = Append(requests,
                              [method |-> "GET", url |-> frame.path,
                               params |-> PageParams(frame, page_token)])
        /\ responses' = IF op \in JoiningOps
                          THEN responses ELSE Append(responses, resp)
        /\ UNCHANGED <<op, args>>
        /\ IF StatusFailed(resp)
             THEN /\ outcome' = APIError(<<"Failed to list ", frame.items_key,
                                           ": ", resp.text>>)
                  /\ pc' = "done"
                  /\ response' = resp
                  /\ UNCHANGED <<frame, page_token, results,
                                 rule_set_deployments, all_rule_sets>>
           ELSE IF FalsyBody(resp.json)
             THEN ReturnFromFetch(EmptyBodyResult(results), page_token, resp)
           ELSE LET curated_sets == DictGet(resp.json[1], frame.items_key, <<>>)
                    extended == Extend(results, curated_sets)
                    next == NextPageToken(resp.json)
                IN  IF ~TruthyStr(next)
                      THEN ReturnFromFetch(extended, next, resp)
                      ELSE /\ results' = extended
                           /\ page_token' = next
                           /\ response' = resp
                           /\ UNCHANGED <<pc, frame, rule_set_deployments,
                                          all_rule_sets, outcome>>

\* One iteration within the explored number of requests.
FetchPage ==
    /\ pc = "fetch"
    /\ Len(FetchRequests) < RequestCap
    /\ FetchPageFrom(PageResponses)

----------------------------------------------------------------------------
(* The loop against a service that hands out a token only finitely often *)

MaxTokenPages == 2

\* the responses served so far that carried a non-empty nextPageToken
TokenPages ==
    Len(SelectSeq(responses,
                  LAMBDA r : /\ r.status_code = StatusOK /\ r.json # Null
                             /\ "nextPageToken" \in DOMAIN r.json[1]
                             /\ r.json[1]["nextPageToken"] # ""))

\* What such a service may answer: anything, but a non-empty token only while
\* it has handed out fewer than MaxTokenPages of them.
FiniteTokenResponses ==
    { r \in ServerResponses(frame.items_key, ServerItems(frame.path), ItemRoom,
                            Tokens \cup {""}) :
        (/\ r.status_code = StatusOK /\ r.json # Null
         /\ "nextPageToken" \in DOMAIN r.json[1]
         /\ r.json[1]["nextPageToken"] # "")
        => TokenPages < MaxTokenPages }

\* One iteration of the loop of lines 52-74, which has no bound of its own.
fetch_page_unbounded == FetchPageFrom(FiniteTokenResponses)


----------------------------------------------------------------------------
(* _paginated_request called several times in one process *)

MaxRuns == 3

\* a direct call of the helper on the categories collection
paginated_request_again ==
    \E st \in {None, Some("t2")} :
        StartFetch("_paginated_request",
                   [page_size |-> None, start_page_token |-> st,
                    extra_params |-> None],
                   NewFrame(PathCategories, "curatedRuleSetCategories", None,
                            st, None))

\* line 59: client.session.get raises, and the exception leaves the helper
abort_run ==
    /\ pc = "fetch"
    /\ RepeatedCall
    /\ Len(FetchRequests) < RequestCap
    /\ requests' = Append(requests,
                          [method |-> "GET", url |-> frame.path,
                           params |-> PageParams(frame, page_token)])
    /\ responses' = Append(responses, [exception |-> "ConnectionError"])
    /\ outcome' = [kind |-> "raise", type |-> "ConnectionError",
                   message |-> "connection lost"]
    /\ pc' = "done"
    /\ UNCHANGED <<op, args, frame, page_token, results, rule_set_deployments,
                   all_rule_sets, response, OtherVars>>

\* The caller has the outcome of the call and goes on; the locals of the
\* finished call are left as they were, for the next call to initialise.
finish_run ==
    /\ pc = "done"
    /\ RepeatedCall
    /\ Len(runs) < MaxRuns
    /\ runs' = Append(runs, [args |-> args, requests |-> requests,
                             responses |-> responses, outcome |-> outcome])
    /\ pc' = "idle"
    /\ requests' = <<>>
    /\ responses' = <<>>
    /\ outcome' = Pending
    /\ UNCHANGED <<op, args, frame, page_token, results, rule_set_deployments,
                   all_rule_sets, response, LogTypeVars, export_stage, CliVars>>

----------------------------------------------------------------------------
(* rule_set.py: get_curated_rule_set_deployment *)

SecOpsError(msg) == [kind |-> "raise", type |-> "SecOpsError", message |-> msg]
TypeError(msg) == [kind |-> "raise", type |-> "TypeError", message |-> msg]

\* The arguments tried: precision, and rule_set_id "b", "ab", "c" and "".
Precisions == {"precise", "broad", "exact"}
RuleSetIds == { <<"b">>, <<"a", "b">>, <<"c">>, <<>> }

\* Mutant: any precision is accepted.
PrecisionValid_any(precision) == TRUE

\* line 317
PrecisionValid(precision) == precision \in {"precise", "broad"}

\* Mutant: the name must equal rule_set_id.
IsSubstring_equal(sub, s) == sub = s

\* Python's "sub in s" for strings
IsSubstring(sub, s) ==
    \E i \in 0..(Len(s) - Len(sub)) : SubSeq(s, i + 1, i + Len(sub)) = sub

\* lines 321-328: the first listed rule set whose name holds rule_set_id
RECURSIVE FirstRuleSet(_, _)
FirstRuleSet(rule_sets, rule_set_id) ==
    IF rule_sets = <<>> THEN None
    ELSE IF IsSubstring(rule_set_id, DictGet(Head(rule_sets), "name", <<>>))
      THEN Some(Head(rule_sets))
    ELSE FirstRuleSet(Tail(rule_sets), rule_set_id)

\* lines 332-335, below client.base_url
DeploymentUrl(rule_set, precision) ==
    DictGet(rule_set, "name", <<>>) \o <<"/curatedRuleSetDeployments/", precision>>

\* What the service may answer to the GET of one deployment.
DeploymentResponses ==
    { [status_code |-> StatusOK, text |-> "",
       json |-> Some([name |-> "dep", displayName |-> "old"])],
      [status_code |-> StatusOK, text |-> "", json |-> Some([enabled |-> TRUE])],
      [status_code |-> StatusOK, text |-> "", json |-> Null],
      [status_code |-> 404, text |-> "missing", json |-> Null] }

\* lines 298-328: the precision check, then the call of list_curated_rule_sets
get_curated_rule_set_deployment ==
    /\ pc = "idle"
    /\ UNCHANGED OtherVars
    /\ \E rule_set_id \in RuleSetIds, precision \in Precisions :
        /\ op' = "get_curated_rule_set_deployment"
        /\ args' = [rule_set_id |-> rule_set_id, precision |-> precision]
        /\ IF ~PrecisionValid(precision)
             THEN /\ outcome' = SecOpsError("Precision must be 'precise' or 'broad'")
                  /\ pc' = "done"
                  /\ UNCHANGED <<frame, page_token, results>>
             ELSE /\ frame' = NewFrame(PathRuleSets, "curatedRuleSets", None,
                                       None, None)
                  /\ page_token' = None
                  /\ results' = <<>>
                  /\ pc' = "fetch"
                  /\ UNCHANGED outcome
    /\ UNCHANGED <<rule_set_deployments, all_rule_sets, response, requests,
                   responses>>

\* lines 321-347: the selection over the listed rule sets, and the GET
select_and_get_deployment ==
    /\ pc = "select"
    /\ UNCHANGED OtherVars
    /\ pc' = "done"
    /\ LET rule_set == FirstRuleSet(results, args.rule_set_id)
       IN  IF rule_set = None
             THEN /\ outcome' = SecOpsError(<<"Rule set ", args.rule_set_id,
                                              " not found">>)
                  /\ UNCHANGED <<requests, response>>
             ELSE \E resp \in DeploymentResponses :
                  /\ requests' = Append(requests,
                        [method |-> "GET",
                         url |-> DeploymentUrl(rule_set[1], args.precision)])
                  /\ response' = resp
                  /\ outcome' =
                       IF resp.status_code # StatusOK
                         THEN APIError(<<"Failed to get curated rule set deployment: ",
                                         resp.text>>)
                       ELSE IF resp.json = Null
                         THEN TypeError("'NoneType' object does not support item assignment")
                       ELSE Returned(Some(DictUpdate(resp.json[1],
                              [displayName |->
                                 DictGet(rule_set[1], "displayName", "")])))
    /\ UNCHANGED <<op, args, frame, page_token, results, rule_set_deployments,
                   all_rule_sets, responses>>

----------------------------------------------------------------------------
(* data_export_v2.py: create_data_export_v2 *)

MaxTime == 2
MaxLogTypes == 2

ProjectsPrefix == <<"p", "r", "o", "j", "e", "c", "t", "s", "/">>

StartsWith(s, prefix) ==
    Len(s) >= Len(prefix) /\ SubSeq(s, 1, Len(prefix)) = prefix

Contains(s, ch) == \E i \in 1..Len(s) : s[i] = ch

\* The gcs_bucket arguments tried: "", "projects/b", "projects/", "projects",
\* "gs://b", "xprojects/b", "Projects/b".
Buckets ==
    { <<>>,
      ProjectsPrefix \o <<"b">>,
      ProjectsPrefix,
      <<"p", "r", "o", "j", "e", "c", "t", "s">>,
      <<"g", "s", ":", "/", "/", "b">>,
      <<"x">> \o ProjectsPrefix \o <<"b">>,
      <<"P", "r", "o", "j", "e", "c", "t", "s", "/", "b">> }

\* datetimes are seconds within one minute of one day
Times == 0..MaxTime

\* log type names: "OKTA" and the already qualified "x/W"
LogTypeNames == { <<"O", "K", "T", "A">>, <<"x", "/", "W">> }

Digit(n) == <<"0", "1", "2", "3", "4", "5", "6", "7", "8", "9">>[n + 1]

\* datetime.strftime("%Y-%m-%dT%H:%M:%S.%fZ")
strftime(t) ==
    <<"2025-01-01", "T", "00", ":", "00", ":">>
    \o <<Digit(t \div 10), Digit(t % 10)>>
    \o <<".", "000000", "Z">>

\* lines 161-173
FormatLogType(log_type) ==
    IF ~Contains(log_type, "/")
      THEN <<"projects", "/", "P", "/", "locations", "/", "R", "/",
             "instances", "/", "C", "/", "logTypes", "/">> \o log_type
      ELSE log_type

ValueError(msg) == [kind |-> "raise", type |-> "ValueError", message |-> msg]

\* What the service may answer to a POST or PATCH of a data export.
ExportResponses ==
    { [status_code |-> StatusOK, text |-> "", json |-> Some([name |-> "export"])],
      [status_code |-> 400, text |-> "rejected",
       json |-> Some([error |-> "rejected"])] }

\* Mutant: the bucket prefix is not checked.
CreateValidation_noPrefix(gcs_bucket, start_time, end_time, log_types, export_all_logs) ==
    IF gcs_bucket = <<>>
      THEN Some("GCS bucket must be provided")
    ELSE IF end_time <= start_time
      THEN Some("End time must be after start time")
    ELSE IF ~export_all_logs /\ Len(log_types) = 0
      THEN Some("Either log_type must be specified or export_all_logs must be True")
    ELSE IF export_all_logs /\ Len(log_types) # 0
      THEN Some("Cannot specify both log_type and export_all_logs=True")
    ELSE None

\* Mutant: equal times pass the time check.
CreateValidation_equalTimes(gcs_bucket, start_time, end_time, log_types, export_all_logs) ==
    IF gcs_bucket = <<>>
      THEN Some("GCS bucket must be provided")
    ELSE IF ~StartsWith(gcs_bucket, ProjectsPrefix)
      THEN Some("GCS bucket must be in format: projects/{project}/buckets/{bucket}")
    ELSE IF end_time < start_time
      THEN Some("End time must be after start time")
    ELSE IF ~export_all_logs /\ Len(log_types) = 0
      THEN Some("Either log_type must be specified or export_all_logs must be True")
    ELSE IF export_all_logs /\ Len(log_types) # 0
      THEN Some("Cannot specify both log_type and export_all_logs=True")
    ELSE None

\* Mutant: export_all_logs together with log types is accepted.
CreateValidation_bothAccepted(gcs_bucket, start_time, end_time, log_types, export_all_logs) ==
    IF gcs_bucket = <<>>
      THEN Some("GCS bucket must be provided")
    ELSE IF ~StartsWith(gcs_bucket, ProjectsPrefix)
      THEN Some("GCS bucket must be in format: projects/{project}/buckets/{bucket}")
    ELSE IF end_time <= start_time
      THEN Some("End time must be after start time")
    ELSE IF ~export_all_logs /\ Len(log_types) = 0
      THEN Some("Either log_type must be specified or export_all_logs must be True")
    ELSE None

\* lines 124-144: the error the validation raises, or None
CreateValidation(gcs_bucket, start_time, end_time, log_types, export_all_logs) ==
    IF gcs_bucket = <<>>
      THEN Some("GCS bucket must be provided")
    ELSE IF ~StartsWith(gcs_bucket, ProjectsPrefix)
      THEN Some("GCS bucket must be in format: projects/{project}/buckets/{bucket}")
    ELSE IF end_time <= start_time
      THEN Some("End time must be after start time")
    ELSE IF ~export_all_logs /\ Len(log_types) = 0
      THEN Some("Either log_type must be specified or export_all_logs must be True")
    ELSE IF export_all_logs /\ Len(log_types) # 0
      THEN Some("Cannot specify both log_type and export_all_logs=True")
    ELSE None

\* lines 146-180
CreatePayload(gcs_bucket, start_time, end_time, log_types, export_all_logs) ==
    [startTime |-> strftime(start_time),
     endTime |-> strftime(end_time),
     gcsBucket |-> gcs_bucket,
     includeLogTypes |->
        IF export_all_logs THEN <<>>
        ELSE [i \in 1..Len(log_types) |-> FormatLogType(log_types[i])]]

\* lines 73-187
create_data_export_v2 ==
    /\ pc = "idle"
    /\ UNCHANGED OtherVars
    /\ \E gcs_bucket \in Buckets, start_time \in Times, end_time \in Times,
          log_types \in SeqsUpTo(LogTypeNames, MaxLogTypes),
          export_all_logs \in BOOLEAN :
        LET error == CreateValidation(gcs_bucket, start_time, end_time,
                                      log_types, export_all_logs)
        IN  /\ op' = "create_data_export_v2"
            /\ args' = [gcs_bucket |-> gcs_bucket, start_time |-> start_time,
                        end_time |-> end_time, log_types |-> log_types,
                        export_all_logs |-> export_all_logs]
            /\ pc' = "done"
            /\ IF error # None
                 THEN /\ outcome' = ValueError(error[1])
                      /\ UNCHANGED <<requests, response>>
                 ELSE \E resp \in ExportResponses :
                      /\ requests' = Append(requests,
                            [method |-> "POST", url |-> "dataExports",
                             json |-> CreatePayload(gcs_bucket, start_time,
                                        end_time, log_types, export_all_logs)])
                      /\ response' = resp
                      /\ outcome' = Returned(resp.json)
    /\ UNCHANGED <<frame, page_token, results, rule_set_deployments,
                   all_rule_sets, responses>>

\* data_export_id arguments tried
ExportIds == {"e1", "e2"}

\* The lifecycle of a data export on the service: queued, processing, then
\* succeeded or failed; a queued or processing export may be cancelled.
StageSuccessors ==
    [IN_QUEUE |-> {"PROCESSING", "CANCELLED"},
     PROCESSING |-> {"FINISHED_SUCCESS", "FINISHED_FAILURE", "CANCELLED"},
     FINISHED_SUCCESS |-> {}, FINISHED_FAILURE |-> {}, CANCELLED |-> {}]

\* the service moves the export on while no call is running
ExportProgress ==
    /\ pc = "idle"
    /\ export_stage' \in StageSuccessors[export_stage]
    /\ UNCHANGED <<pc, op, args, frame, page_token, results,
                   rule_set_deployments, all_rule_sets, response, requests,
                   responses, outcome, LogTypeVars, runs, CliVars>>

\* The service accepts an update of a queued export (line 200) and a cancel
\* of an export in progress (line 262); it rejects them in any other stage.
StageAllows(request, stage) ==
    IF request = "update" THEN stage = "IN_QUEUE"
    ELSE stage \in {"IN_QUEUE", "PROCESSING"}

\* What the service may answer to an update or cancel in the given stage.
StageResponses(request, stage) ==
    { resp \in ExportResponses :
        resp.status_code = StatusOK => StageAllows(request, stage) }

OptionalTimes == {None} \cup {Some(t) : t \in Times}
OptionalBuckets == {None} \cup {Some(b) : b \in Buckets}
OptionalLogTypes ==
    {None} \cup {Some(l) : l \in SeqsUpTo(LogTypeNames, MaxLogTypes)}

\* "if gcs_bucket:" of line 229: a str is truthy when it is not empty
TruthyBucket(gcs_bucket) == gcs_bucket # None /\ gcs_bucket[1] # <<>>

\* lines 217-240: the payload dict the update builds
UpdatePayload(start_time, end_time, gcs_bucket, log_types) ==
    LET keys == (IF start_time # None THEN {"startTime"} ELSE {})
                \cup (IF end_time # None THEN {"endTime"} ELSE {})
                \cup (IF TruthyBucket(gcs_bucket) THEN {"gcsBucket"} ELSE {})
                \cup (IF log_types # None THEN {"includeLogTypes"} ELSE {})
    IN  [k \in keys |->
            CASE k = "startTime" -> strftime(start_time[1])
              [] k = "endTime" -> strftime(end_time[1])
              [] k = "gcsBucket" -> gcs_bucket[1]
              [] k = "includeLogTypes" -> log_types[1]]

\* Mutant: the bucket is written to the payload but not to the mask.
UpdateMask_noBucket(start_time, end_time, gcs_bucket, log_types) ==
    (IF start_time # None THEN <<"startTime">> ELSE <<>>)
    \o (IF end_time # None THEN <<"endTime">> ELSE <<>>)
    \o (IF log_types # None THEN <<"includeLogTypes">> ELSE <<>>)

\* lines 217-240: the update_mask list the update builds
UpdateMask(start_time, end_time, gcs_bucket, log_types) ==
    (IF start_time # None THEN <<"startTime">> ELSE <<>>)
    \o (IF end_time # None THEN <<"endTime">> ELSE <<>>)
    \o (IF TruthyBucket(gcs_bucket) THEN <<"gcsBucket">> ELSE <<>>)
    \o (IF log_types # None THEN <<"includeLogTypes">> ELSE <<>>)

\* ",".join(update_mask) of line 250
RECURSIVE JoinComma(_)
JoinComma(names) ==
    IF names = <<>> THEN <<>>
    ELSE IF Len(names) = 1 THEN names
    ELSE <<Head(names), ",">> \o JoinComma(Tail(names))

\* Mutant: an update without a bucket is refused locally.
UpdateValidation_needsBucket(start_time, end_time, gcs_bucket, log_types) ==
    IF ~TruthyBucket(gcs_bucket)
      THEN Some("At least one field to update must be provided.")
    ELSE IF ~StartsWith(gcs_bucket[1], ProjectsPrefix)
      THEN Some("GCS bucket must be in format: projects/{project}/buckets/{bucket}")
    ELSE None

\* lines 229-243: the error the update raises before sending, or None
UpdateValidation(start_time, end_time, gcs_bucket, log_types) ==
    IF TruthyBucket(gcs_bucket) /\ ~StartsWith(gcs_bucket[1], ProjectsPrefix)
      THEN Some("GCS bucket must be in format: projects/{project}/buckets/{bucket}")
    ELSE IF DOMAIN UpdatePayload(start_time, end_time, gcs_bucket, log_types) = {}
      THEN Some("At least one field to update must be provided.")
    ELSE None

\* lines 190-257
update_data_export_v2 ==
    /\ pc = "idle"
    /\ UNCHANGED OtherVars
    /\ \E data_export_id \in ExportIds,
          start_time \in OptionalTimes, end_time \in OptionalTimes,
          gcs_bucket \in OptionalBuckets, log_types \in OptionalLogTypes :
        LET error == UpdateValidation(start_time, end_time, gcs_bucket, log_types)
        IN  /\ op' = "update_data_export_v2"
            /\ args' = [data_export_id |-> data_export_id,
                        start_time |-> start_time, end_time |-> end_time,
                        gcs_bucket |-> gcs_bucket, log_types |-> log_types]
            /\ pc' = "done"
            /\ IF error # None
                 THEN /\ outcome' = ValueError(error[1])
                      /\ UNCHANGED <<requests, response>>
                 ELSE \E resp \in StageResponses("update", export_stage) :
                      /\ requests' = Append(requests,
                            [method |-> "PATCH",
                             url |-> <<"dataExports", "/", data_export_id>>,
                             json |-> UpdatePayload(start_time, end_time,
                                                    gcs_bucket, log_types),
                             params |-> [update_mask |->
                                 JoinComma(UpdateMask(start_time, end_time,
                                                      gcs_bucket, log_types))]])
                      /\ response' = resp
                      /\ outcome' =
                           IF resp.status_code # StatusOK
                             THEN APIError(<<"Failed to update data export: ",
                                             resp.text>>)
                             ELSE Returned(resp.json)
    /\ UNCHANGED <<frame, page_token, results, rule_set_deployments,
                   all_rule_sets, responses>>

\* lines 44-70
get_data_export_v2 ==
    /\ pc = "idle"
    /\ UNCHANGED OtherVars
    /\ \E data_export_id \in ExportIds, resp \in ExportResponses :
        /\ op' = "get_data_export_v2"
        /\ args' = [data_export_id |-> data_export_id]
        /\ pc' = "done"
        /\ requests' = Append(requests,
              [method |-> "GET", url |-> <<"dataExports", "/", data_export_id>>])
        /\ response' = resp
        /\ outcome' =
             IF resp.status_code # StatusOK
               THEN APIError(<<"Failed to get data export: ", resp.text>>)
               ELSE Returned(resp.json)
    /\ UNCHANGED <<frame, page_token, results, rule_set_deployments,
                   all_rule_sets, responses>>

\* lines 261-290
cancel_data_export_v2 ==
    /\ pc = "idle"
    /\ UNCHANGED OtherVars
    /\ \E data_export_id \in ExportIds,
          resp \in StageResponses("cancel", export_stage) :
        /\ op' = "cancel_data_export_v2"
        /\ args' = [data_export_id |-> data_export_id]
        /\ pc' = "done"
        /\ requests' = Append(requests,
              [method |-> "POST",
               url |-> <<"dataExports", "/", data_export_id, ":cancel">>])
        /\ response' = resp
        /\ outcome' =
             IF resp.status_code # StatusOK
               THEN APIError(<<"Failed to cancel data export: ", resp.text>>)
               ELSE Returned(resp.json)
    /\ UNCHANGED <<frame, page_token, results, rule_set_deployments,
                   all_rule_sets, responses>>

\* lines 293-323
list_data_export_v2 ==
    /\ pc = "idle"
    /\ UNCHANGED OtherVars
    /\ \E filter \in {None, Some("f")}, page_size \in {None, Some(2)},
          token \in {None, Some("t1")}, resp \in ExportResponses :
        /\ op' = "list_data_export_v2"
        /\ args' = [filter |-> filter, page_size |-> page_size,
                    page_token |-> token]
        /\ pc' = "done"
        /\ requests' = Append(requests,
              [method |-> "GET", url |-> <<"dataExports">>,
               params |-> [pageSize |-> page_size, pageToken |-> token,
                           filter |-> filter]])
        /\ response' = resp
        /\ outcome' =
             IF resp.status_code # StatusOK
               THEN APIError(<<"Failed to get data export: ", resp.text>>)
               ELSE Returned(resp.json)
    /\ UNCHANGED <<frame, page_token, results, rule_set_deployments,
                   all_rule_sets, responses>>

----------------------------------------------------------------------------
(* rule_set.py: batch_update_curated_rule_set_deployments *)

MaxBatch == 2

Optional(S) == {None} \cup {Some(v) : v \in S}

\* a dict with the keys whose value is given
DeploymentDict(category_id, rule_set_id, precision, enabled, alerting) ==
    LET given == [category_id |-> category_id, rule_set_id |-> rule_set_id,
                  precision |-> precision, enabled |-> enabled,
                  alerting |-> alerting]
    IN  [k \in {f \in DOMAIN given : given[f] # None} |-> given[k][1]]

\* The deployment dicts tried: every subset of the five keys.
DeploymentDicts ==
    { DeploymentDict(c, r, p, e, a) :
        c \in Optional({"c1"}), r \in Optional({"r1"}),
        p \in Optional({"broad", "precise"}),
        e \in Optional(BOOLEAN), a \in Optional(BOOLEAN) }

\* What the service may answer to the batch update POST.
BatchResponses ==
    { [status_code |-> StatusOK, text |-> "", json |-> Some([updated |-> TRUE])],
      [status_code |-> 500, text |-> "boom", json |-> Null] }

\* line 389
required_fields == <<"category_id", "rule_set_id", "precision", "enabled">>

\* Mutant: only the first missing field is reported.
MissingFields_firstOnly(deployment) ==
    LET all == SelectSeq(required_fields, LAMBDA field : field \notin DOMAIN deployment)
    IN  IF all = <<>> THEN <<>> ELSE <<Head(all)>>

\* lines 390-392
MissingFields(deployment) ==
    SelectSeq(required_fields, LAMBDA field : field \notin DOMAIN deployment)

\* Mutant: category and rule set change places in the name.
make_deployment_name_swapped(category_id, rule_set_id, precision) ==
    <<"I", "/curatedRuleSetCategories/", rule_set_id,
      "/curatedRuleSets/", category_id,
      "/curatedRuleSetDeployments/", precision>>

\* lines 377-382; "I" is client.instance_id
make_deployment_name(category_id, rule_set_id, precision) ==
    <<"I", "/curatedRuleSetCategories/", category_id,
      "/curatedRuleSets/", rule_set_id,
      "/curatedRuleSetDeployments/", precision>>

\* Mutant: an item without alerting is submitted without alerting, and its
\* mask names enabled alone.
RequestItem_alertingLeftOut(deployment) ==
    IF "alerting" \in DOMAIN deployment
      THEN [curated_rule_set_deployment |->
               [name |-> make_deployment_name(deployment["category_id"],
                                              deployment["rule_set_id"],
                                              deployment["precision"]),
                enabled |-> deployment["enabled"],
                alerting |-> deployment["alerting"]],
            update_mask |-> [paths |-> <<"alerting", "enabled">>]]
      ELSE [curated_rule_set_deployment |->
               [name |-> make_deployment_name(deployment["category_id"],
                                              deployment["rule_set_id"],
                                              deployment["precision"]),
                enabled |-> deployment["enabled"]],
            update_mask |-> [paths |-> <<"enabled">>]]

\* lines 400-418
RequestItem(deployment) ==
    [curated_rule_set_deployment |->
        [name |-> make_deployment_name(deployment["category_id"],
                                       deployment["rule_set_id"],
                                       deployment["precision"]),
         enabled |-> deployment["enabled"],
         alerting |-> DictGet(deployment, "alerting", FALSE)],
     update_mask |-> [paths |-> <<"alerting", "enabled">>]]

\* lines 387-420: the loop over the batch, from item i on; it ends with the
\* ValueError of the first item that misses a field, or with the request items
RECURSIVE BuildRequestItems(_, _, _)
BuildRequestItems(deployments, i, request_items) ==
    IF i > Len(deployments)
      THEN [error |-> None, request_items |-> request_items]
    ELSE IF MissingFields(deployments[i]) # <<>>
      THEN [error |-> Some(<<"Deployment missing required fields: ",
                             MissingFields(deployments[i])>>),
            request_items |-> request_items]
    ELSE BuildRequestItems(deployments, i + 1,
                           Append(request_items, RequestItem(deployments[i])))

\* lines 350-438
batch_update_curated_rule_set_deployments ==
    /\ pc = "idle"
    /\ UNCHANGED OtherVars
    /\ \E n \in 0..MaxBatch : \E deployments \in [1..n -> DeploymentDicts] :
        LET built == BuildRequestItems(deployments, 1, <<>>)
        IN  /\ op' = "batch_update_curated_rule_set_deployments"
            /\ args' = [deployments |-> deployments]
            /\ pc' = "done"
            /\ IF built.error # None
                 THEN /\ outcome' = ValueError(built.error[1])
                      /\ UNCHANGED <<requests, response>>
                 ELSE \E resp \in BatchResponses :
                      /\ requests' = Append(requests,
                            [method |-> "POST",
                             url |-> <<"I", "/curatedRuleSetCategories/-",
                                       "/curatedRuleSets/-",
                                       "/curatedRuleSetDeployments:batchUpdate">>,
                             json |-> [parent |-> <<"I", "/curatedRuleSetCategories/-",
                                                    "/curatedRuleSets/-">>,
                                       requests |-> built.request_items]])
                      /\ response' = resp
                      /\ outcome' =
                           IF resp.status_code # StatusOK
                             THEN APIError(<<"Failed to batch update rule set deployments: ",
                                             resp.text>>)
                             ELSE Returned(resp.json)
    /\ UNCHANGED <<frame, page_token, results, rule_set_deployments,
                   all_rule_sets, responses>>

----------------------------------------------------------------------------
(* log_types.py: the process-wide cache of the log type table *)

MaxCalls == 4

\* the client and force_static arguments tried
LogTypeClients == {None, Some("client")}

\* load_log_types returns the cached table when there is one
CacheHit(cache) == cache # None

\* the log types of the static table, and those the service lists
StaticLogTypes == {"OKTA", "AWS_CLOUDTRAIL"}
ApiLogTypes == {"OKTA", "AWS_CLOUDTRAIL", "WINDOWS"}

\* Mutant: a given client is asked even when the static table is forced.
AsksApi_forced(client, force_static) == client # None

\* a load asks the service when a client is given and static data is not forced
AsksApi(client, force_static) == client # None /\ ~force_static

\* The table a load builds: from the API when a client is given, static data
\* is not forced and the fetch succeeds; else the static table.
LoadedSource(client, force_static, fetch_ok) ==
    IF client # None /\ ~force_static /\ fetch_ok THEN "api" ELSE "static"

LoadedEntries(source) == IF source = "api" THEN ApiLogTypes ELSE StaticLogTypes

\* the identity of the next table object built: one more than the loads so far
TablesBuilt ==
    Len(SelectSeq(log_type_calls,
                  LAMBDA c : c.call = "load_log_types" /\ c.loaded))

load_log_types ==
    /\ Len(log_type_calls) < MaxCalls
    /\ \E client \in LogTypeClients, force_static \in BOOLEAN,
          fetch_ok \in BOOLEAN :
        IF CacheHit(LOG_TYPES_CACHE)
          THEN /\ log_type_calls' = Append(log_type_calls,
                     [call |-> "load_log_types", client |-> client,
                      force_static |-> force_static, loaded |-> FALSE,
                      fetch_ok |-> fetch_ok, sent |-> 0, raised |-> FALSE,
                      result |-> LOG_TYPES_CACHE[1]])
               /\ UNCHANGED <<LOG_TYPES_CACHE, requests>>
          ELSE LET source == LoadedSource(client, force_static, fetch_ok)
                   table == [id |-> TablesBuilt + 1, source |-> source,
                             entries |-> LoadedEntries(source)]
                   asks == AsksApi(client, force_static)
               IN  /\ LOG_TYPES_CACHE' = Some(table)
                   /\ requests' =
                        IF asks
                          THEN Append(requests,
                                 [method |-> "GET", url |-> <<"logTypes">>,
                                  params |-> [pageSize |-> DefaultPageSize]])
                          ELSE requests
                   /\ log_type_calls' = Append(log_type_calls,
                         [call |-> "load_log_types", client |-> client,
                          force_static |-> force_static, loaded |-> TRUE,
                          fetch_ok |-> fetch_ok,
                          sent |-> IF asks THEN 1 ELSE 0, raised |-> FALSE,
                          result |-> table])
    /\ UNCHANGED <<pc, op, args, frame, page_token, results,
                   rule_set_deployments, all_rule_sets, response, responses,
                   outcome, export_stage, runs, CliVars>>

\* Mutant: the reset leaves the cache as it is.
ResetValue_keep(cache) == cache

\* test_log_types.py line 110: log_types._LOG_TYPES_CACHE = None
ResetValue(cache) == None

reset_cache ==
    /\ Len(log_type_calls) < MaxCalls
    /\ LOG_TYPES_CACHE' = ResetValue(LOG_TYPES_CACHE)
    /\ log_type_calls' = Append(log_type_calls, [call |-> "reset_cache"])
    /\ UNCHANGED <<pc, op, args, frame, page_token, results,
                   rule_set_deployments, all_rule_sets, response, requests,
                   responses, outcome, export_stage, runs, CliVars>>

----------------------------------------------------------------------------
(* cli/commands/config.py: config set and config clear *)

\* The options of "config set" tried; None is an option that was not given.
ConfigSetArgs ==
    [customer_id : {None, Some("c1"), Some("c2")},
     project_id : {None, Some("p1")},
     region : {None, Some("")},
     service_account : {None, Some("sa.json")},
     start_time : {None, Some("2025-01-01T00:00:00Z")},
     end_time : {None, Some("")},
     time_window : {None, Some(0), Some(24)}]

\* config[key] = value
SetKey(cfg, key, value) == DictUpdate(cfg, key :> value)

\* Mutant: time_window is tested for truth, like the other options.
ConfigAfterSet_truthyWindow(cfg, a) ==
    LET c1 == IF TruthyStr(a.customer_id)
                THEN SetKey(cfg, "customer_id", a.customer_id[1]) ELSE cfg
        c2 == IF TruthyStr(a.project_id)
                THEN SetKey(c1, "project_id", a.project_id[1]) ELSE c1
        c3 == IF TruthyStr(a.region)
                THEN SetKey(c2, "region", a.region[1]) ELSE c2
        c4 == IF TruthyStr(a.service_account)
                THEN SetKey(c3, "service_account", a.service_account[1]) ELSE c3
        c5 == IF TruthyStr(a.start_time)
                THEN SetKey(c4, "start_time", a.start_time[1]) ELSE c4
        c6 == IF TruthyStr(a.end_time)
                THEN SetKey(c5, "end_time", a.end_time[1]) ELSE c5
    IN  IF TruthyInt(a.time_window)
          THEN SetKey(c6, "time_window", a.time_window[1]) ELSE c6

\* lines 97-111: the loaded config after the seven tests
ConfigAfterSet(cfg, a) ==
    LET c1 == IF TruthyStr(a.customer_id)
                THEN SetKey(cfg, "customer_id", a.customer_id[1]) ELSE cfg
        c2 == IF TruthyStr(a.project_id)
                THEN SetKey(c1, "project_id", a.project_id[1]) ELSE c1
        c3 == IF TruthyStr(a.region)
                THEN SetKey(c2, "region", a.region[1]) ELSE c2
        c4 == IF TruthyStr(a.service_account)
                THEN SetKey(c3, "service_account", a.service_account[1]) ELSE c3
        c5 == IF TruthyStr(a.start_time)
                THEN SetKey(c4, "start_time", a.start_time[1]) ELSE c4
        c6 == IF TruthyStr(a.end_time)
                THEN SetKey(c5, "end_time", a.end_time[1]) ELSE c5
    IN  IF a.time_window # None
          THEN SetKey(c6, "time_window", a.time_window[1]) ELSE c6

\* lines 88-117; load_config and save_config read and write the saved dict
handle_config_set_command ==
    /\ pc = "idle"
    /\ \E a \in ConfigSetArgs :
        /\ op' = "config set"
        /\ args' = a
        /\ config' = ConfigAfterSet(config, a)
    /\ UNCHANGED <<pc, frame, page_token, results, rule_set_deployments,
                   all_rule_sets, response, requests, responses, outcome,
                   LogTypeVars, export_stage, runs, handler, exit_status,
                   stderr, formatted, cli_events>>

\* lines 141-155: the configuration file is removed
handle_config_clear_command ==
    /\ pc = "idle"
    /\ op' = "config clear"
    /\ args' = <<>>
    /\ config' = EmptyDict
    /\ UNCHANGED <<pc, frame, page_token, results, rule_set_deployments,
                   all_rule_sets, response, requests, responses, outcome,
                   LogTypeVars, export_stage, runs, handler, exit_status,
                   stderr, formatted, cli_events>>

----------------------------------------------------------------------------
(* cli/commands/curated_rule.py and entity.py: the command handlers *)

Handlers ==
    { "handle_curated_rules_rules_list_command",
      "handle_curated_rules_rules_get_command",
      "handle_curated_rules_rule_set_deployment_get_command",
      "handle_curated_rules_rule_set_deployment_update_command",
      "handle_entity_command" }

\* the handler has been entered and has neither returned nor exited
Running(h) == handler = h /\ exit_status = None

\* main calls args.func(args, chronicle): one handler per process
invoke_handler ==
    /\ pc = "idle"
    /\ handler = ""
    /\ \E h \in Handlers : handler' = h
    /\ UNCHANGED <<pc, op, args, frame, page_token, results,
                   rule_set_deployments, all_rule_sets, response, requests,
                   responses, outcome, LogTypeVars, export_stage, runs,
                   exit_status, stderr, formatted, config, cli_events>>

\* A call of a client method defined outside rule_set.py: it returns some
\* value or raises some exception.
SdkCall(name, a, values) ==
    /\ pc = "idle"
    /\ UNCHANGED OtherVars
    /\ pc' = "done"
    /\ op' = name
    /\ args' = a
    /\ \/ \E v \in values : outcome' = Returned(v)
       \/ outcome' = APIError(<<"boom">>)
       \/ outcome' = SecOpsError(<<"Unsupported artifact type", ": x">>)
    /\ UNCHANGED <<frame, page_token, results, rule_set_deployments,
                   all_rule_sets, response, requests, responses>>

\* What the service may answer to the GET of one curated rule.
RuleResponses ==
    { [status_code |-> StatusOK, text |-> "", json |-> Some([name |-> "ur_1"])],
      [status_code |-> StatusOK, text |-> "", json |-> Null],
      [status_code |-> 404, text |-> "missing", json |-> Null] }

\* rule_set.py lines 210-235
get_curated_rule ==
    /\ pc = "idle"
    /\ UNCHANGED OtherVars
    /\ pc' = "done"
    /\ op' = "get_curated_rule"
    /\ args' = [rule_id |-> "ur_1"]
    /\ \E resp \in RuleResponses :
        /\ requests' = Append(requests,
                              [method |-> "GET",
                               url |-> <<"curatedRules/", "ur_1">>])
        /\ response' = resp
        /\ outcome' = IF resp.status_code # StatusOK
                        THEN APIError(<<"Failed to get curated rule: ",
                                        resp.text>>)
                        ELSE Returned(resp.json)
    /\ UNCHANGED <<frame, page_token, results, rule_set_deployments,
                   all_rule_sets, responses>>

\* lines 191-197
handle_curated_rules_rules_list_command ==
    /\ Running("handle_curated_rules_rules_list_command")
    /\ list_curated_rules

\* lines 204-211: by id when args.id is given, else by name
handle_curated_rules_rules_get_command ==
    /\ Running("handle_curated_rules_rules_get_command")
    /\ \/ get_curated_rule
       \/ SdkCall("get_curated_rule_by_name", [name |-> "n"],
                  {Some([name |-> "ur_1"])})

\* lines 282-291: by name when args.name is given, else by id
handle_curated_rules_rule_set_deployment_get_command ==
    /\ Running("handle_curated_rules_rule_set_deployment_get_command")
    /\ \/ get_curated_rule_set_deployment
       \/ SdkCall("get_curated_rule_set_deployment_by_name",
                  [name |-> "n", precision |-> "broad"],
                  {Some([name |-> "dep"])})

\* line 306: "true" in any case is True, any other text is False
convert_bool(s) ==
    IF s = None THEN None ELSE Some(s[1] \in {"true", "True", "TRUE"})

\* lines 308-315
CliPayload(a) ==
    LET base == [category_id |-> a.category_id, rule_set_id |-> a.rule_set_id,
                 precision |-> a.precision,
                 enabled |-> convert_bool(a.enabled)]
    IN  IF a.alerting # None
          THEN DictUpdate(base, [alerting |-> convert_bool(a.alerting)])
          ELSE base

\* lines 171-188: the options the update command accepts
CliUpdateArgs ==
    [category_id : {"c"}, rule_set_id : {"r"}, precision : {"broad"},
     enabled : {Some("true"), Some("false")},
     alerting : {None, Some("true"), Some("false")}]

\* lines 300-316
handle_curated_rules_rule_set_deployment_update_command ==
    /\ Running("handle_curated_rules_rule_set_deployment_update_command")
    /\ \E a \in CliUpdateArgs :
        SdkCall("update_curated_rule_set_deployment", CliPayload(a),
                {Some([name |-> "dep"])})

\* An object with attributes, and Python's vars() of it.
Object(class, attributes) == [class |-> class, attributes |-> attributes]
Vars(o) == o.attributes

\* The entity summaries the client may return.
EntitySummaries ==
    [primary_entity : {"e"}, related_entities : {<<>>},
     alert_counts : {<<>>, <<Object("AlertCount", [rule |-> "r", count |-> 1])>>},
     timeline : {None, Some(Object("Timeline", [bucket_size |-> "3600s"]))},
     prevalence : {<<>>, <<Object("Prevalence", [count |-> 1])>>}]

MapVars(objects) == [i \in 1..Len(objects) |-> Vars(objects[i])]

\* entity.py lines 54-92
ResultDict(result) ==
    [primary_entity |-> result.primary_entity,
     related_entities |-> result.related_entities,
     alert_counts |-> MapVars(result.alert_counts),
     timeline |-> IF result.timeline # None
                    THEN Some(Vars(result.timeline[1])) ELSE None,
     prevalence |-> MapVars(result.prevalence)]

\* entity.py lines 46-52
handle_entity_command ==
    /\ Running("handle_entity_command")
    /\ SdkCall("summarize_entity", [value |-> "x"], EntitySummaries)

\* entity.py line 44: get_time_range raises outside the try block and the
\* interpreter ends the process with a traceback.
get_time_range_raises ==
    /\ Running("handle_entity_command")
    /\ pc = "idle"
    /\ pc' = "done"
    /\ exit_status' = Some(1)
    /\ stderr' = Append(stderr, <<"Traceback">>)
    /\ UNCHANGED <<op, args, frame, page_token, results,
                   rule_set_deployments, all_rule_sets, response, requests,
                   responses, outcome, LogTypeVars, export_stage, runs,
                   handler, formatted, config, cli_events>>

\* the text each handler prints before the exception
ErrorText(h, e) ==
    IF h = "handle_entity_command"
      THEN IF IsSubstring(<<"Unsupported artifact type">>, e.message)
             THEN <<"Error: The entity type for '", args.value,
                    "' is not supported.">>
             ELSE <<"Error: ", e.message>>
    ELSE IF h = "handle_curated_rules_rules_list_command"
      THEN <<"Error listing curated rules: ", e.message>>
    ELSE IF h = "handle_curated_rules_rules_get_command"
      THEN <<"Error getting curated rule: ", e.message>>
    ELSE IF h = "handle_curated_rules_rule_set_deployment_get_command"
      THEN <<"Error getting curated rule set deployment: ", e.message>>
    ELSE <<"Error updating curated rule set deployment: ", e.message>>

\* what the handler hands to the formatter
FormatterInput(h, value) ==
    IF h = "handle_entity_command" THEN ResultDict(value) ELSE value

\* cli/utils/formatters.py: output_formatter prints the data and returns
output_formatter(data, format) ==
    formatted' = Append(formatted, [data |-> data, format |-> format])

\* Mutant: the exception is reported and the handler returns.
HandlerStatus_swallowed(result) == 0

\* the except clause ends the process with status 1; a handler that returns
\* lets main return, status 0
HandlerStatus(result) == IF result.kind = "raise" THEN 1 ELSE 0

\* The rest of the try statement once the client method has returned or
\* raised: the formatter call, or the except clause.
finish_handler ==
    /\ handler # ""
    /\ exit_status = None
    /\ pc = "done"
    /\ exit_status' = Some(HandlerStatus(outcome))
    /\ IF outcome.kind = "raise"
         THEN /\ stderr' = Append(stderr, ErrorText(handler, outcome))
              /\ UNCHANGED formatted
         ELSE /\ output_formatter(FormatterInput(handler, outcome.value),
                                  "json")
              /\ UNCHANGED stderr
    /\ UNCHANGED <<pc, op, args, frame, page_token, results,
                   rule_set_deployments, all_rule_sets, response, requests,
                   responses, outcome, LogTypeVars, export_stage, runs,
                   handler, config, cli_events>>

----------------------------------------------------------------------------
(* cli/__init__.py: main and setup_client *)

\* lines 173-187. Command names are sequences of words and hyphens; for the
\* commands that main registers, one name occurs in another by words exactly
\* when it does by characters.
chronicle_commands ==
    << <<"search">>, <<"udm", "-", "search", "-", "view">>, <<"stats">>,
       <<"entity">>, <<"iocs">>, <<"rule">>, <<"alert">>, <<"case">>,
       <<"export">>, <<"gemini">>, <<"rule", "-", "exclusion">>,
       <<"forwarder">>, <<"dashboard">> >>

\* The commands tried: none, config, help, entity, log, rule-exclusion and
\* dashboard-query.
Commands ==
    { <<>>, <<"config">>, <<"help">>, <<"entity">>, <<"log">>,
      <<"rule", "-", "exclusion">>, <<"dashboard", "-", "query">> }

\* line 188: any(cmd in args.command for cmd in chronicle_commands)
RequiresChronicle(command) ==
    \E i \in 1..Len(chronicle_commands) :
        IsSubstring(chronicle_commands[i], command)

\* Python's "a or b" on an optional string and a dict lookup
OrConfig(value, cfg, key) ==
    IF TruthyStr(value) THEN value
    ELSE IF key \in DOMAIN cfg THEN Some(cfg[key]) ELSE None

\* Mutant: main does not look for the configuration.
MissingConfiguration_none(a, cfg) == <<>>

\* lines 193-202: the names main reports as missing
MissingConfiguration(a, cfg) ==
    (IF ~TruthyStr(OrConfig(a.customer_id, cfg, "customer_id"))
       THEN <<"customer_id">> ELSE <<>>)
    \o (IF ~TruthyStr(OrConfig(a.project_id, cfg, "project_id"))
          THEN <<"project_id">> ELSE <<>>)

\* lines 65-78 of setup_client: the names missing from the arguments alone
missing_args(a) ==
    (IF ~TruthyStr(a.customer_id) THEN <<"customer_id">> ELSE <<>>)
    \o (IF ~TruthyStr(a.project_id) THEN <<"project_id">> ELSE <<>>)

Event(name) == [event |-> name]
HandlerEvent(chronicle) == [event |-> "handler", chronicle |-> chronicle]
Ended(events, status, err) ==
    [events |-> events, exit_status |-> status, stderr |-> err]

\* lines 41-120; add_chronicle_args gives every command the customer_id,
\* project_id and region attributes, so line 60 holds
SetupClient(a, auth_ok, chronicle_ok) ==
    IF ~auth_ok
      THEN [events |-> <<Event("SecOpsClient")>>, chronicle |-> None,
            exit_status |-> Some(1), stderr |-> <<"Authentication error">>]
    ELSE IF missing_args(a) # <<>>
      THEN [events |-> <<Event("SecOpsClient")>>, chronicle |-> None,
            exit_status |-> Some(1),
            stderr |-> <<"Error: Missing required configuration parameters:",
                         missing_args(a)>>]
    ELSE IF ~chronicle_ok
      THEN [events |-> <<Event("SecOpsClient"), Event("client.chronicle")>>,
            chronicle |-> None, exit_status |-> Some(1),
            stderr |-> <<"Authentication error">>]
    ELSE [events |-> <<Event("SecOpsClient"), Event("client.chronicle")>>,
          chronicle |-> Some("chronicle"), exit_status |-> None,
          stderr |-> <<>>]

\* lines 160-244: what one run of main does; the handler it invokes ends
\* with handler_status
MainRun(a, cfg, auth_ok, chronicle_ok, handler_status) ==
    IF a.command = <<>>
      THEN Ended(<<Event("print_help")>>, Some(1), <<>>)
    ELSE IF a.command = <<"config">> \/ a.command = <<"help">>
      THEN Ended(<<HandlerEvent(None)>>, Some(0), <<>>)
    ELSE IF /\ RequiresChronicle(a.command)
            /\ MissingConfiguration(a, cfg) # <<>>
      THEN Ended(<<Event("load_config")>>, Some(1),
                 <<"Error: Missing required configuration: ",
                   MissingConfiguration(a, cfg)>>)
    ELSE LET checked == IF RequiresChronicle(a.command)
                          THEN <<Event("load_config")>> ELSE <<>>
             setup == SetupClient(a, auth_ok, chronicle_ok)
         IN  IF setup.exit_status # None
               THEN Ended(checked \o setup.events, setup.exit_status,
                          setup.stderr)
             ELSE IF ~a.has_func
               THEN Ended(checked \o setup.events, Some(0), <<>>)
             ELSE IF ~RequiresChronicle(a.command) \/ setup.chronicle # None
               THEN Ended(checked \o setup.events
                            \o <<HandlerEvent(setup.chronicle)>>,
                          Some(handler_status),
                          IF handler_status = 0 THEN <<>> ELSE <<"Error">>)
             ELSE Ended(checked \o setup.events, Some(1),
                        <<"Error: Chronicle client required for this command">>)

\* the command lines tried
MainArgs ==
    { a \in [command : Commands,
             customer_id : {None, Some(""), Some("c1")},
             project_id : {None, Some("p1")},
             has_func : BOOLEAN] :
        a.command \in {<<"config">>, <<"help">>} => a.has_func }

\* the options of a config set run through main
MainConfigSetArgs ==
    { a \in ConfigSetArgs :
        /\ a.region = None /\ a.service_account = None /\ a.start_time = None
        /\ a.end_time = None /\ a.time_window = None }

\* One run of the program; a config command runs config set or config clear.
main ==
    /\ pc = "idle"
    /\ \E a \in MainArgs, auth_ok \in BOOLEAN, chronicle_ok \in BOOLEAN,
          handler_status \in {0, 1} :
        LET run == MainRun(a, config, auth_ok, chronicle_ok, handler_status)
        IN  /\ op' = "main"
            /\ args' = a
            /\ cli_events' = run.events
            /\ exit_status' = run.exit_status
            /\ stderr' = run.stderr
            /\ IF a.command = <<"config">>
                 THEN \/ \E c \in MainConfigSetArgs :
                            config' = ConfigAfterSet(config, c)
                      \/ config' = EmptyDict
                 ELSE UNCHANGED config
    /\ UNCHANGED <<pc, frame, page_token, results, rule_set_deployments,
                   all_rule_sets, response, requests, responses, outcome,
                   LogTypeVars, export_stage, runs, handler, formatted>>

----------------------------------------------------------------------------
(* Properties of the command handlers (SpecHandlers) *)

HandlerEnded == handler # "" /\ exit_status # None

\* the value a handler owes the formatter for what the client returned
Handed(value) ==
    IF handler = "handle_entity_command"
      THEN [primary_entity |-> value.primary_entity,
            related_entities |-> value.related_entities,
            alert_counts |-> [i \in 1..Len(value.alert_counts) |->
                                value.alert_counts[i].attributes],
            timeline |-> IF value.timeline = None THEN None
                         ELSE Some(value.timeline[1].attributes),
            prevalence |-> [i \in 1..Len(value.prevalence) |->
                              value.prevalence[i].attributes]]
      ELSE value

\* C25: a handler whose client call raised ends the process with status 1
\* after writing a message to the error stream and never calls the output
\* formatter; a handler whose client call returned calls the formatter
\* once, with the result, and does not exit with status 1; until the client
\* call is over nothing is formatted.
C25_HandlerOutcome ==
    handler # "" =>
        /\ exit_status = None => formatted = <<>>
        /\ (pc = "done" /\ exit_status = None) => ENABLED finish_handler
        /\ (HandlerEnded /\ outcome.kind = "raise")
             => /\ exit_status = Some(1)
                /\ Len(stderr) = 1
                /\ formatted = <<>>
        /\ (HandlerEnded /\ outcome.kind = "return")
             => /\ Len(formatted) = 1
                /\ formatted[1].data = Handed(outcome.value)
                /\ exit_status # Some(1)
                /\ stderr = <<>>

C25_Witness ==
    /\ handler = "handle_curated_rules_rules_list_command"
    /\ Len(requests) = 2
    /\ outcome = APIError(<<"Failed to list ", "curatedRules", ": ", "boom">>)
    /\ exit_status = Some(1)
    /\ Len(stderr) = 1
    /\ formatted = <<>>

\* The commands of main's list and the registered commands whose name
\* holds one of them.
ChronicleRequiring ==
    { <<"entity">>, <<"rule", "-", "exclusion">>,
      <<"dashboard", "-", "query">> }

HasEvent(name) == \E i \in 1..Len(cli_events) : cli_events[i].event = name

IdMissing(key) ==
    /\ ~TruthyStr(args[key])
    /\ key \in DOMAIN config => config[key] = ""

\* C27: a run of main for a command that requires Chronicle, with
\* customer_id or project_id missing from both the arguments and the saved
\* configuration, exits with status 1 without creating the client or
\* invoking the handler; a config or help run invokes its handler and
\* neither checks the configuration nor creates a client; the handler of a
\* command that requires Chronicle is never invoked without a Chronicle
\* client.
C27_MainGuardsChronicle ==
    op = "main" =>
        /\ (/\ args.command \in ChronicleRequiring
            /\ IdMissing("customer_id") \/ IdMissing("project_id"))
             => /\ exit_status = Some(1)
                /\ ~HasEvent("SecOpsClient")
                /\ ~HasEvent("client.chronicle")
                /\ ~HasEvent("handler")
        /\ args.command \in {<<"config">>, <<"help">>}
             => cli_events = <<HandlerEvent(None)>>
        /\ args.command \in ChronicleRequiring
             => \A i \in 1..Len(cli_events) :
                    cli_events[i].event = "handler"
                        => cli_events[i].chronicle # None

C27_Witness ==
    /\ op = "main"
    /\ args.command = <<"dashboard", "-", "query">>
    /\ TruthyStr(args.customer_id)
    /\ IdMissing("project_id")
    /\ "customer_id" \in DOMAIN config
    /\ exit_status = Some(1)
    /\ cli_events = <<Event("load_config")>>

----------------------------------------------------------------------------
(* Specifications *)

Init ==
    /\ pc = "idle"
    /\ op = ""
    /\ args = <<>>
    /\ frame = NoFrame
    /\ page_token = None
    /\ results = <<>>
    /\ rule_set_deployments = <<>>
    /\ all_rule_sets = <<>>
    /\ response = None
    /\ requests = <<>>
    /\ responses = <<>>
    /\ outcome = Pending
    /\ LOG_TYPES_CACHE = None
    /\ log_type_calls = <<>>
    /\ export_stage = "IN_QUEUE"
    /\ runs = <<>>
    /\ handler = ""
    /\ exit_status = None
    /\ stderr = <<>>
    /\ formatted = <<>>
    /\ config = EmptyDict
    /\ cli_events = <<>>

\* Listing of one collection.
NextPage ==
    \/ paginated_request
    \/ list_curated_rule_sets
    \/ list_curated_rule_set_categories
    \/ list_curated_rules
    \/ FetchPage

SpecPage == Init /\ [][NextPage]_vars

\* Listing of deployments, joined with the rule sets.
NextDeploy ==
    \/ list_curated_rule_set_deployments
    \/ FetchPage

SpecDeploy == Init /\ [][NextDeploy]_vars

\* _paginated_request called again and again.
NextRepeat ==
    \/ paginated_request_again
    \/ FetchPage
    \/ abort_run
    \/ finish_run

SpecRepeat == Init /\ [][NextRepeat]_vars

\* The loop without a request cap, against a finite-token service; the loop
\* is sequential code, so an iteration that can be taken is taken.
NextTerminate ==
    \/ list_curated_rules
    \/ fetch_page_unbounded

SpecTerminate ==
    Init /\ [][NextTerminate]_vars /\ WF_vars(fetch_page_unbounded)

\* The configuration commands, run one after another.
NextConfig ==
    \/ handle_config_set_command
    \/ handle_config_clear_command

SpecConfig == Init /\ [][NextConfig]_vars

\* One command handler from its call by main to its return or exit.
NextHandlers ==
    \/ invoke_handler
    \/ handle_curated_rules_rules_list_command
    \/ handle_curated_rules_rules_get_command
    \/ handle_curated_rules_rule_set_deployment_get_command
    \/ handle_curated_rules_rule_set_deployment_update_command
    \/ handle_entity_command
    \/ get_time_range_raises
    \/ FetchPage
    \/ select_and_get_deployment
    \/ finish_handler

SpecHandlers == Init /\ [][NextHandlers]_vars

\* Runs of the command line program, one after another.
NextMain ==
    \/ main

SpecMain == Init /\ [][NextMain]_vars

\* Lookup of one deployment through the rule set listing.
NextGetDeployment ==
    \/ get_curated_rule_set_deployment
    \/ FetchPage
    \/ select_and_get_deployment

SpecGetDeployment == Init /\ [][NextGetDeployment]_vars

\* The log type table and its cache.
NextLogTypes ==
    \/ load_log_types
    \/ reset_cache

SpecLogTypes == Init /\ [][NextLogTypes]_vars

\* Batch update of deployments.
NextBatch ==
    \/ batch_update_curated_rule_set_deployments

SpecBatch == Init /\ [][NextBatch]_vars

\* Data exports.
NextExport ==
    \/ ExportProgress
    \/ create_data_export_v2
    \/ update_data_export_v2
    \/ get_data_export_v2
    \/ cancel_data_export_v2
    \/ list_data_export_v2

SpecExport == Init /\ [][NextExport]_vars

----------------------------------------------------------------------------
(* Properties of the listing of one collection (SpecPage) *)

PageOK(resp) == resp.status_code = StatusOK /\ resp.json # Null
                /\ DOMAIN resp.json[1] # {}

PageItems(resp) ==
    IF resp.json # Null /\ frame.items_key \in DOMAIN resp.json[1]
      THEN resp.json[1][frame.items_key] ELSE <<>>

HasToken(resp) ==
    /\ "nextPageToken" \in DOMAIN resp.json[1]
    /\ resp.json[1]["nextPageToken"] # ""

\* The items of the first n pages served, page after page.
ItemsServed(n) == Flatten([i \in 1..n |-> PageItems(responses[i])])

\* C1: a fetch without page size that ended after K pages, all of them 200
\* with a non-empty body, ended on the first page without a token, sent K
\* requests and returned the pages' items in server order, duplicates kept.
C1_AllPagesInOrder ==
    (/\ pc = "done"
     /\ frame.page_size = None
     /\ \A i \in 1..Len(responses) : PageOK(responses[i]))
    => LET K == Len(responses)
       IN  /\ K >= 1
           /\ ~HasToken(responses[K])
           /\ \A i \in 1..(K - 1) : HasToken(responses[i])
           /\ Len(requests) = K
           /\ \A i \in 1..K : requests[i].method = "GET"
           /\ outcome = Returned(ItemsServed(K))

C1_Witness ==
    /\ pc = "done"
    /\ frame.page_size = None
    /\ Len(responses) = 3
    /\ \A i \in 1..3 : PageOK(responses[i])
    /\ PageItems(responses[1]) = <<"b">>
    /\ PageItems(responses[3]) = <<"b">>
    /\ outcome = Returned(<<"b", "b">>)

\* C2: a list call with an explicit page size sends exactly one request and
\* returns only the items of that page.
C2_SinglePage ==
    (pc = "done" /\ TruthyInt(frame.page_size))
    => /\ Len(requests) = 1
       /\ outcome.kind = "return" => outcome.value = ItemsServed(1)

\* C3: a response with a non-success status is the last one of the fetch:
\* the call has ended raising APIError with the response text, and no value
\* is returned.
C3_FailureAborts ==
    \A i \in 1..Len(responses) :
        responses[i].status_code # StatusOK
        => /\ i = Len(responses)
           /\ Len(requests) = i
           /\ pc = "done"
           /\ outcome = [kind |-> "raise", type |-> "APIError",
                         message |-> <<"Failed to list ", frame.items_key,
                                       ": ", responses[i].text>>]

C3_Witness ==
    /\ Len(responses) = 3
    /\ responses[3].status_code # StatusOK
    /\ results = <<"a", "b">>
    /\ outcome.kind = "raise"
    /\ Len(requests) = 3

\* C4: a 200 response with a falsy body is the last one of the fetch: the
\* call has returned exactly the items of the earlier pages.
C4_EmptyBodyEnds ==
    \A i \in 1..Len(responses) :
        (/\ responses[i].status_code = StatusOK
         /\ (responses[i].json = Null \/ DOMAIN responses[i].json[1] = {}))
        => /\ i = Len(responses)
           /\ Len(requests) = i
           /\ pc = "done"
           /\ outcome = Returned(ItemsServed(i - 1))

C4_Witness ==
    /\ pc = "done"
    /\ Len(responses) = 2
    /\ responses[2].status_code = StatusOK
    /\ responses[2].json = Null
    /\ outcome = Returned(<<"a", "b">>)

\* C5: the first request carries the start token when a non-empty one was
\* given and no pageToken otherwise; request i+1 carries the nextPageToken of
\* response i; the response without a token is the last one.
C5_CursorChain ==
    /\ Len(requests) >= 1
       => IF frame.start_page_token # None /\ frame.start_page_token[1] # ""
            THEN /\ "pageToken" \in DOMAIN requests[1].params
                 /\ requests[1].params.pageToken = frame.start_page_token[1]
            ELSE "pageToken" \notin DOMAIN requests[1].params
    /\ \A i \in 1..(Len(requests) - 1) :
        /\ PageOK(responses[i])
        /\ HasToken(responses[i])
        /\ "pageToken" \in DOMAIN requests[i + 1].params
        /\ requests[i + 1].params.pageToken = responses[i].json[1]["nextPageToken"]
    /\ \A i \in 1..Len(responses) :
        (PageOK(responses[i]) /\ ~HasToken(responses[i]))
        => (i = Len(responses) /\ Len(requests) = i /\ pc = "done")
    /\ (Len(responses) >= 1 /\ PageOK(responses[Len(responses)])
        /\ HasToken(responses[Len(responses)]))
       => pc = "fetch"

C5_Witness ==
    /\ pc = "done"
    /\ frame.start_page_token = Some("t1")
    /\ Len(requests) = 3
    /\ requests[1].params.pageToken = "t1"
    /\ requests[2].params.pageToken = "t2"
    /\ requests[3].params.pageToken = "t1"
    /\ outcome.kind = "return"

\* C6: every request carries pageSize: 1000 when the caller gave no page
\* size, the caller's value when it is positive.
C6_PageSize ==
    \A i \in 1..Len(requests) :
        /\ "pageSize" \in DOMAIN requests[i].params
        /\ frame.page_size = None
           => requests[i].params.pageSize = 1000
        /\ (frame.page_size # None /\ frame.page_size[1] > 0)
           => requests[i].params.pageSize = frame.page_size[1]

C6_Witness ==
    /\ Len(requests) = 3
    /\ frame.page_size = Some(2)
    /\ \A i \in 1..3 : requests[i].params.pageSize = 2

----------------------------------------------------------------------------
(* Properties of the deployment listing (SpecDeploy) *)

ListedDeployments ==
    pc = "done" /\ op = "list_curated_rule_set_deployments"
    /\ outcome.kind = "return"

\* The name cut before the first marker, trailing separators removed.
KeyOfName(name) ==
    LET marks == {i \in 1..Len(name) : name[i] = "D"}
        cut == IF marks = {} THEN Len(name)
               ELSE (CHOOSE i \in marks : \A j \in marks : i <= j) - 1
        n == CHOOSE k \in 0..cut :
                /\ k = 0 \/ name[k] # "/"
                /\ \A j \in (k + 1)..cut : name[j] = "/"
    IN  SubSeq(name, 1, n)

KeyOf(d) == IF "name" \in DOMAIN d THEN KeyOfName(d.name) ELSE <<>>

\* Positions of the fetched rule sets named exactly like the key of d.
Matches(d) ==
    {j \in 1..Len(all_rule_sets) :
        "name" \in DOMAIN all_rule_sets[j] /\ all_rule_sets[j].name = KeyOf(d)}

DisplayOf(rule_set) ==
    IF "displayName" \in DOMAIN rule_set THEN rule_set.displayName ELSE ""

\* d with the display name of the matching rule set (of the last one listed
\* when several match), or d itself when none matches.
Enriched(d) ==
    IF Matches(d) = {} THEN d
    ELSE LET last == CHOOSE j \in Matches(d) : \A k \in Matches(d) : k <= j
         IN  [f \in DOMAIN d \cup {"displayName"} |->
                IF f = "displayName" THEN DisplayOf(all_rule_sets[last])
                ELSE d[f]]

\* C7: every returned deployment is a fetched one, carrying the display name
\* of the rule set named like its parent key, and unchanged when no rule set
\* is; without filters these are all the fetched ones, in order.
C7_Enrichment ==
    ListedDeployments
    => /\ \A k \in 1..Len(outcome.value) :
            \E i \in 1..Len(rule_set_deployments) :
                outcome.value[k] = Enriched(rule_set_deployments[i])
       /\ (~args.only_enabled /\ ~args.only_alerting)
          => /\ Len(outcome.value) = Len(rule_set_deployments)
             /\ \A i \in 1..Len(rule_set_deployments) :
                    outcome.value[i] = Enriched(rule_set_deployments[i])

C7_Witness ==
    /\ ListedDeployments
    /\ Len(outcome.value) = 2
    /\ outcome.value[1] = [name |-> <<"a", "/", "/", "D", "D">>,
                           alerting |-> TRUE, displayName |-> "X"]
    /\ outcome.value[2] = [displayName |-> "old", enabled |-> FALSE]
    /\ Len(all_rule_sets) = 2

IsRuleSetRequest(i) == requests[i].url = PathRuleSets

\* C8: the rule sets are requested after the deployment pages, with page size
\* 1000 and from the first page whatever the caller passed, until the server
\* hands out no token; a failed rule set request makes the call raise
\* APIError without a value.
C8_SecondaryExhaustive ==
    /\ \A i \in 1..Len(requests) :
        IsRuleSetRequest(i)
        => /\ requests[i].params.pageSize = 1000
           /\ \A j \in i..Len(requests) : IsRuleSetRequest(j)
           /\ (i = 1 \/ ~IsRuleSetRequest(i - 1))
              => "pageToken" \notin DOMAIN requests[i].params
    /\ Len(requests) >= 1 => ~IsRuleSetRequest(1)
    /\ ListedDeployments
       => /\ IsRuleSetRequest(Len(requests))
          /\ response.status_code = StatusOK
          /\ (response.json = Null \/ ~HasToken(response))
    /\ (response # None /\ response.status_code # StatusOK)
       => /\ pc = "done"
          /\ outcome = [kind |-> "raise", type |-> "APIError",
                        message |-> <<"Failed to list ", frame.items_key, ": ",
                                      response.text>>]

C8_Witness ==
    /\ pc = "done"
    /\ args.page_size = Some(2)
    /\ args.page_token = Some("t2")
    /\ Len(requests) = 4
    /\ IsRuleSetRequest(3)
    /\ rule_set_deployments # <<>>
    /\ response.status_code # StatusOK
    /\ outcome.kind = "raise"

FieldTruthy(d, f) == f \in DOMAIN d /\ d[f] = TRUE

\* C9: the result is the enriched list restricted, in order, to the items
\* passing the test of each flag that is set; with both flags this is what
\* filtering by one flag and then by the other gives, in either order.
C9_Filters ==
    ListedDeployments
    => LET E == Enrich(rule_set_deployments, all_rule_sets)
           Both(d) == FieldTruthy(d, "enabled") /\ FieldTruthy(d, "alerting")
           Keep(d) == /\ args.only_enabled => FieldTruthy(d, "enabled")
                      /\ args.only_alerting => FieldTruthy(d, "alerting")
       IN  /\ outcome.value = SelectSeq(E, Keep)
           /\ ApplyFilters(E, TRUE, TRUE) = SelectSeq(E, Both)
           /\ ApplyFilters(ApplyFilters(E, TRUE, FALSE), FALSE, TRUE)
                = SelectSeq(E, Both)
           /\ ApplyFilters(ApplyFilters(E, FALSE, TRUE), TRUE, FALSE)
                = SelectSeq(E, Both)
           /\ ApplyFilters(E, FALSE, FALSE) = E

C9_Witness ==
    /\ ListedDeployments
    /\ args.only_enabled /\ args.only_alerting
    /\ Len(rule_set_deployments) = 2
    /\ rule_set_deployments[1] = [name |-> <<"a", "/", "/", "D", "D">>,
                                  alerting |-> TRUE]
    /\ outcome.value = << [name |-> <<"a", "/", "D", "s", "/", "p">>,
                           enabled |-> TRUE, alerting |-> TRUE,
                           displayName |-> "X"] >>

----------------------------------------------------------------------------
(* Properties of the data export requests (SpecExport) *)

BeginsWithProjects(b) ==
    /\ Len(b) >= 9
    /\ b[1] = "p" /\ b[2] = "r" /\ b[3] = "o" /\ b[4] = "j" /\ b[5] = "e"
    /\ b[6] = "c" /\ b[7] = "t" /\ b[8] = "s" /\ b[9] = "/"

\* C10: create_data_export_v2 with an empty bucket or one that does not begin
\* with projects/ raises ValueError and sends nothing.
C10_BucketChecked ==
    (/\ pc = "done"
     /\ op = "create_data_export_v2"
     /\ (Len(args.gcs_bucket) = 0 \/ ~BeginsWithProjects(args.gcs_bucket)))
    => /\ outcome.kind = "raise"
       /\ outcome.type = "ValueError"
       /\ requests = <<>>

C10_Witness ==
    /\ pc = "done"
    /\ op = "create_data_export_v2"
    /\ args.gcs_bucket = <<"x">> \o ProjectsPrefix \o <<"b">>
    /\ args.end_time > args.start_time
    /\ args.export_all_logs /\ args.log_types = <<>>
    /\ outcome.kind = "raise"
    /\ requests = <<>>

CreateDone == pc = "done" /\ op = "create_data_export_v2"

\* C11: create_data_export_v2 with end_time <= start_time raises ValueError
\* and sends nothing; with end_time after start_time it never raises the
\* time-range error.
C11_TimeRangeChecked ==
    CreateDone
    => /\ args.end_time <= args.start_time
          => /\ outcome.kind = "raise"
             /\ outcome.type = "ValueError"
             /\ requests = <<>>
       /\ args.end_time > args.start_time
          => ~(/\ outcome.kind = "raise"
               /\ outcome.message = "End time must be after start time")

C11_Witness ==
    /\ CreateDone
    /\ BeginsWithProjects(args.gcs_bucket)
    /\ args.end_time = args.start_time
    /\ args.export_all_logs /\ args.log_types = <<>>
    /\ outcome = [kind |-> "raise", type |-> "ValueError",
                  message |-> "End time must be after start time"]
    /\ requests = <<>>

IsSuffix(suffix, s) ==
    /\ Len(suffix) <= Len(s)
    /\ SubSeq(s, Len(s) - Len(suffix) + 1, Len(s)) = suffix

\* C12: export_all_logs with log types, and neither of them, raise ValueError
\* and send nothing; each of the two other combinations, with a valid bucket
\* and time range, sends exactly one POST whose includeLogTypes is empty for
\* export_all_logs and else has one entry per log type, in input order.
C12_ExactlyOneSelection ==
    CreateDone
    => LET all == args.export_all_logs
           n == Len(args.log_types)
       IN  /\ ((all /\ n # 0) \/ (~all /\ n = 0))
              => /\ outcome.kind = "raise"
                 /\ outcome.type = "ValueError"
                 /\ requests = <<>>
           /\ (/\ (all /\ n = 0) \/ (~all /\ n # 0)
               /\ BeginsWithProjects(args.gcs_bucket)
               /\ args.end_time > args.start_time)
              => /\ Len(requests) = 1
                 /\ requests[1].method = "POST"
                 /\ Len(requests[1].json.includeLogTypes) = (IF all THEN 0 ELSE n)
                 /\ \A i \in 1..Len(requests[1].json.includeLogTypes) :
                        IsSuffix(args.log_types[i],
                                 requests[1].json.includeLogTypes[i])

C12_Witness ==
    /\ CreateDone
    /\ ~args.export_all_logs
    /\ args.log_types = << <<"x", "/", "W">>, <<"O", "K", "T", "A">> >>
    /\ Len(requests) = 1
    /\ Len(requests[1].json.includeLogTypes) = 2

UpdateDone == pc = "done" /\ op = "update_data_export_v2"

\* the names a comma-joined mask lists, in order
RECURSIVE SplitComma(_)
SplitComma(joined) ==
    IF joined = <<>> THEN <<>>
    ELSE IF Head(joined) = "," THEN SplitComma(Tail(joined))
    ELSE <<Head(joined)>> \o SplitComma(Tail(joined))

MaskOrder == <<"startTime", "endTime", "gcsBucket", "includeLogTypes">>

\* C13: update_data_export_v2 with no field supplied raises ValueError and
\* sends nothing; the update_mask of every PATCH it sends names exactly the
\* keys of the JSON payload, in the order startTime, endTime, gcsBucket,
\* includeLogTypes.
C13_MaskMatchesPayload ==
    UpdateDone
    => /\ (/\ args.start_time = None /\ args.end_time = None
           /\ args.gcs_bucket = None /\ args.log_types = None)
          => /\ outcome.kind = "raise"
             /\ outcome.type = "ValueError"
             /\ requests = <<>>
       /\ \A i \in 1..Len(requests) :
            LET mask == SplitComma(requests[i].params.update_mask)
            IN  /\ {mask[j] : j \in 1..Len(mask)} = DOMAIN requests[i].json
                /\ mask = SelectSeq(MaskOrder,
                                    LAMBDA f : f \in DOMAIN requests[i].json)

C13_Witness ==
    /\ UpdateDone
    /\ Len(requests) = 1
    /\ DOMAIN requests[1].json = {"endTime", "gcsBucket"}
    /\ requests[1].params.update_mask = <<"endTime", ",", "gcsBucket">>

\* C16: every operation that sent a request raises APIError carrying the
\* response text when the response status is not 200, and returns the parsed
\* body only when it is 200.
C16_FailureRaisesAPIError ==
    (pc = "done" /\ requests # <<>>)
    => IF response.status_code # StatusOK
         THEN /\ outcome.kind = "raise"
              /\ outcome.type = "APIError"
              /\ outcome.message[Len(outcome.message)] = response.text
         ELSE outcome = Returned(response.json)

LogTypesPrefix ==
    <<"projects", "/", "P", "/", "locations", "/", "R", "/",
      "instances", "/", "C", "/", "logTypes", "/">>

Qualified(name) ==
    IF \E i \in 1..Len(name) : name[i] = "/" THEN name
    ELSE LogTypesPrefix \o name

\* the log types the caller supplied to create or update
SuppliedLogTypes ==
    IF op = "create_data_export_v2" THEN args.log_types
    ELSE IF args.log_types = None THEN <<>> ELSE args.log_types[1]

\* C17: every create or update request that carries log types sends the
\* qualified path of each supplied name: a name without "/" expanded under
\* projects/{project_id}/locations/{region}/instances/{customer_id}/logTypes/,
\* a name with "/" verbatim, in the caller's order and number.
C17_LogTypesQualified ==
    (pc = "done" /\ op \in {"create_data_export_v2", "update_data_export_v2"})
    => \A i \in 1..Len(requests) :
         "includeLogTypes" \in DOMAIN requests[i].json
         => /\ Len(requests[i].json.includeLogTypes) = Len(SuppliedLogTypes)
            /\ \A j \in 1..Len(SuppliedLogTypes) :
                 requests[i].json.includeLogTypes[j]
                   = Qualified(SuppliedLogTypes[j])

\* C18: update_data_export_v2 raises ValueError and sends no PATCH when the
\* supplied gcs_bucket is empty or does not begin with "projects/", and when
\* the supplied end_time is not after the supplied start_time.
C18_UpdateValidated ==
    UpdateDone
    => ((\/ /\ args.gcs_bucket # None
            /\ ~BeginsWithProjects(args.gcs_bucket[1])
         \/ /\ args.start_time # None /\ args.end_time # None
            /\ args.end_time[1] <= args.start_time[1])
        => /\ outcome.kind = "raise"
           /\ outcome.type = "ValueError"
           /\ requests = <<>>)

BatchDone == pc = "done" /\ op = "batch_update_curated_rule_set_deployments"

RequiredKeys == {"category_id", "rule_set_id", "precision", "enabled"}

Offending(d) == ~(RequiredKeys \subseteq DOMAIN d)

\* C14: when any item of the batch lacks a required field, the call raises a
\* ValueError that lists exactly the missing fields of the first such item,
\* in the order category_id, rule_set_id, precision, enabled, and no request
\* is sent.
C14_BatchValidation ==
    BatchDone
    => \A k \in 1..Len(args.deployments) :
         (/\ Offending(args.deployments[k])
          /\ \A j \in 1..(k - 1) : ~Offending(args.deployments[j]))
         => /\ outcome.kind = "raise"
            /\ outcome.type = "ValueError"
            /\ outcome.message[2]
                 = SelectSeq(<<"category_id", "rule_set_id", "precision", "enabled">>,
                             LAMBDA f : f \notin DOMAIN args.deployments[k])
            /\ requests = <<>>

C14_Witness ==
    /\ BatchDone
    /\ Len(args.deployments) = 2
    /\ ~Offending(args.deployments[1])
    /\ DOMAIN args.deployments[2] = {"category_id", "precision", "alerting"}
    /\ outcome = [kind |-> "raise", type |-> "ValueError",
                  message |-> <<"Deployment missing required fields: ",
                                <<"rule_set_id", "enabled">> >>]
    /\ requests = <<>>

\* C15: a batch of n items that all have the required fields is sent as one
\* POST whose requests list has n items in input order; item i is named
\* {instance}/curatedRuleSetCategories/{category_id}/curatedRuleSets/
\* {rule_set_id}/curatedRuleSetDeployments/{precision} of input i, carries its
\* enabled and alerting values, and has update mask paths [alerting, enabled].
C15_BatchRequest ==
    (BatchDone /\ \A k \in 1..Len(args.deployments) : ~Offending(args.deployments[k]))
    => /\ Len(requests) = 1
       /\ requests[1].method = "POST"
       /\ Len(requests[1].json.requests) = Len(args.deployments)
       /\ \A i \in 1..Len(args.deployments) :
            LET d == args.deployments[i]
                item == requests[1].json.requests[i]
            IN  /\ item.curated_rule_set_deployment.name
                     = <<"I", "/curatedRuleSetCategories/", d.category_id,
                         "/curatedRuleSets/", d.rule_set_id,
                         "/curatedRuleSetDeployments/", d.precision>>
                /\ item.curated_rule_set_deployment.enabled = d.enabled
                /\ "alerting" \in DOMAIN d
                   => item.curated_rule_set_deployment.alerting = d.alerting
                /\ item.update_mask.paths = <<"alerting", "enabled">>

C15_Witness ==
    /\ BatchDone
    /\ Len(args.deployments) = 2
    /\ \A k \in 1..2 : DOMAIN args.deployments[k] = RequiredKeys \cup {"alerting"}
    /\ args.deployments[1].precision = "broad"
    /\ args.deployments[2].precision = "precise"
    /\ args.deployments[1].alerting /\ ~args.deployments[2].enabled
    /\ Len(requests) = 1
    /\ Len(requests[1].json.requests) = 2
    /\ outcome.kind = "return"

GetDeploymentDone == pc = "done" /\ op = "get_curated_rule_set_deployment"

\* the requests that are not pages of a listing
NonListingRequests == SelectSeq(requests, LAMBDA r : "params" \notin DOMAIN r)

ListingFailed ==
    /\ outcome.kind = "raise"
    /\ outcome.type = "APIError"
    /\ outcome.message[1] = "Failed to list "

NameOf(rs) == IF "name" \in DOMAIN rs THEN rs.name ELSE <<>>

Occurs(sub, s) ==
    \E i \in 1..(Len(s) + 1) :
        \A j \in 1..Len(sub) : i + j - 1 <= Len(s) /\ s[i + j - 1] = sub[j]

MatchingIndexes ==
    {i \in 1..Len(results) : Occurs(args.rule_set_id, NameOf(results[i]))}

\* C19: get_curated_rule_set_deployment with a precision other than precise
\* and broad raises SecOpsError and sends no request; with no listed rule set
\* matching rule_set_id it raises SecOpsError and sends no deployment GET;
\* otherwise it sends one GET of {name of the matched rule set}/
\* curatedRuleSetDeployments/{precision} and, when that succeeds, returns the
\* deployment with displayName set to the matched rule set's displayName.
C19_DeploymentLookup ==
    GetDeploymentDone
    => IF args.precision \notin {"precise", "broad"}
         THEN /\ outcome.kind = "raise" /\ outcome.type = "SecOpsError"
              /\ requests = <<>>
       ELSE IF ListingFailed
         THEN NonListingRequests = <<>>
       ELSE IF MatchingIndexes = {}
         THEN /\ outcome.kind = "raise" /\ outcome.type = "SecOpsError"
              /\ NonListingRequests = <<>>
       ELSE \E m \in MatchingIndexes :
              /\ Len(NonListingRequests) = 1
              /\ NonListingRequests[1].method = "GET"
              /\ NonListingRequests[1].url
                   = NameOf(results[m])
                     \o <<"/curatedRuleSetDeployments/", args.precision>>
              /\ (response.status_code = StatusOK /\ response.json # Null)
                 => /\ outcome.kind = "return"
                    /\ outcome.value[1].displayName
                         = (IF "displayName" \in DOMAIN results[m]
                              THEN results[m].displayName ELSE "")
                    /\ \A k \in DOMAIN response.json[1] \ {"displayName"} :
                         outcome.value[1][k] = response.json[1][k]

C19_Witness ==
    /\ GetDeploymentDone
    /\ args = [rule_set_id |-> <<"b">>, precision |-> "broad"]
    /\ Len(results) = 2
    /\ results[1] = [name |-> <<"a">>]
    /\ results[2] = [name |-> <<"a", "b">>, displayName |-> "AB"]
    /\ Len(requests) = 3
    /\ requests[3].url = <<"a", "b", "/curatedRuleSetDeployments/", "broad">>
    /\ outcome = [kind |-> "return",
                  value |-> <<[name |-> "dep", displayName |-> "AB"]>>]

IsLoad(i) == log_type_calls[i].call = "load_log_types"

NoResetBetween(i, j) ==
    \A k \in (i + 1)..(j - 1) : log_type_calls[k].call # "reset_cache"

\* C20: between two resets of the cache, every load_log_types call after the
\* first returns the very same table object as the first and builds no table;
\* the first load_log_types call of all, and the first one after a reset,
\* build a table that no earlier call returned.
C20_CacheMemoized ==
    \A j \in 1..Len(log_type_calls) :
        IsLoad(j)
        => /\ \A i \in 1..(j - 1) :
                (IsLoad(i) /\ NoResetBetween(i, j))
                => /\ log_type_calls[j].result.id = log_type_calls[i].result.id
                   /\ ~log_type_calls[j].loaded
           /\ (\A i \in 1..(j - 1) : IsLoad(i) => ~NoResetBetween(i, j))
              => /\ log_type_calls[j].loaded
                 /\ \A i \in 1..(j - 1) :
                      IsLoad(i)
                      => log_type_calls[i].result.id # log_type_calls[j].result.id

C20_Witness ==
    /\ Len(log_type_calls) = 4
    /\ IsLoad(1) /\ log_type_calls[1].loaded
    /\ IsLoad(2) /\ ~log_type_calls[2].loaded
    /\ log_type_calls[1].force_static /\ ~log_type_calls[2].force_static
    /\ log_type_calls[2].client # None
    /\ log_type_calls[2].result = log_type_calls[1].result
    /\ log_type_calls[3].call = "reset_cache"
    /\ IsLoad(4) /\ log_type_calls[4].loaded
    /\ log_type_calls[4].result.id # log_type_calls[1].result.id

CancelDone == pc = "done" /\ op = "cancel_data_export_v2"

\* an update call that names a field and whose bucket, if any, is well formed
ValidUpdateArgs ==
    /\ \/ args.start_time # None \/ args.end_time # None
       \/ args.log_types # None
       \/ (args.gcs_bucket # None /\ args.gcs_bucket[1] # <<>>)
    /\ (args.gcs_bucket # None /\ args.gcs_bucket[1] # <<>>)
       => BeginsWithProjects(args.gcs_bucket[1])

StageLegal ==
    IF op = "update_data_export_v2" THEN export_stage = "IN_QUEUE"
    ELSE export_stage \in {"IN_QUEUE", "PROCESSING"}

\* C22: in every lifecycle stage of the export, update_data_export_v2 with
\* valid arguments and cancel_data_export_v2 send exactly one request, the
\* PATCH or POST on the export id, with no read before it; they raise only the
\* APIError made from the service's rejection, and an illegal transition ends
\* in that APIError.
C22_NoLocalLifecycle ==
    ((UpdateDone /\ ValidUpdateArgs) \/ CancelDone)
    => /\ Len(requests) = 1
       /\ requests[1].method = (IF op = "update_data_export_v2"
                                  THEN "PATCH" ELSE "POST")
       /\ requests[1].url[3] = args.data_export_id
       /\ outcome.kind = "raise"
          => /\ outcome.type = "APIError"
             /\ response.status_code # StatusOK
             /\ outcome.message[2] = response.text
       /\ ~StageLegal => outcome.kind = "raise"

C22_Witness ==
    /\ UpdateDone
    /\ export_stage = "FINISHED_SUCCESS"
    /\ args.start_time = None /\ args.end_time # None
    /\ Len(requests) = 1
    /\ requests[1].method = "PATCH"
    /\ outcome.kind = "raise" /\ outcome.type = "APIError"

\* C23: two finished calls of _paginated_request with the same arguments, to
\* which the service answered the same way, sent the same requests and ended
\* the same way, whatever calls were made before and between them.
C23_Stateless ==
    \A i \in 1..Len(runs) : \A j \in (i + 1)..Len(runs) :
        (runs[i].args = runs[j].args /\ runs[i].responses = runs[j].responses)
        => /\ runs[i].requests = runs[j].requests
           /\ runs[i].outcome = runs[j].outcome

C23_Witness ==
    /\ Len(runs) = 3
    /\ runs[1].args = runs[3].args
    /\ runs[1].responses = runs[3].responses
    /\ Len(runs[1].responses) = 2
    /\ runs[1].outcome = [kind |-> "return", value |-> <<"a", "b">>]
    /\ runs[3].outcome = runs[1].outcome
    /\ runs[2].args # runs[1].args
    /\ runs[2].outcome.kind = "raise"
    /\ runs[2].outcome.type = "ConnectionError"
    /\ Len(runs[2].requests) = 2

\* C24: when extra_params is supplied to _paginated_request, every page
\* request of the fetch, the first and each later one, carries every extra
\* parameter next to pageSize and, after the first page, the pageToken the
\* previous response returned.
C24_ExtraParamsEveryPage ==
    (op = "_paginated_request" /\ args.extra_params # None)
    => \A i \in 1..Len(requests) :
         LET params == requests[i].params
         IN  /\ \A k \in DOMAIN args.extra_params[1] :
                    k \in DOMAIN params /\ params[k] = args.extra_params[1][k]
             /\ "pageSize" \in DOMAIN params
             /\ i > 1
                => /\ "pageToken" \in DOMAIN params
                   /\ params.pageToken = responses[i - 1].json[1].nextPageToken

C24_Witness ==
    /\ op = "_paginated_request"
    /\ args.extra_params = <<[filter |-> "f"]>>
    /\ Len(requests) = 3
    /\ requests[1].params.filter = "f"
    /\ requests[2].params = [pageSize |-> 1000, pageToken |-> "t1", filter |-> "f"]
    /\ requests[3].params.filter = "f"
    /\ requests[3].params.pageToken = "t2"

\* C26: against a service that hands out a non-empty nextPageToken only
\* finitely often, every started fetch ends (returns or raises); the loop
\* sends exactly one more request after each response that carried a
\* non-empty token, and while the last response carried one it has not ended
\* and its next request can be sent, whatever the number of requests so far.
C26_Terminates ==
    /\ [](pc \in {"fetch", "done"}
          => /\ Len(requests) = Len(responses)
             /\ pc = "fetch" => Len(requests) = TokenPages
             /\ pc = "done" => Len(requests) = TokenPages + 1
             /\ pc = "fetch" => ENABLED fetch_page_unbounded)
    /\ ((pc = "fetch") ~> (pc = "done"))

C26_Witness ==
    /\ pc = "done"
    /\ op = "list_curated_rules"
    /\ Len(requests) = 3
    /\ responses[1].json[1]["nextPageToken"] = "t1"
    /\ responses[2].json[1]["nextPageToken"] = "t1"
    /\ requests[2].params = requests[3].params
    /\ outcome.kind = "return"

\* C29: an item of the batch that omits alerting is submitted with
\* alerting = False, and its update mask still names alerting, so the update
\* overwrites the deployment's alerting setting.
C29_AlertingDefaultsFalse ==
    (BatchDone /\ Len(requests) = 1)
    => \A i \in 1..Len(args.deployments) :
         "alerting" \notin DOMAIN args.deployments[i]
         => LET item == requests[1].json.requests[i]
            IN  /\ "alerting" \in DOMAIN item.curated_rule_set_deployment
                /\ item.curated_rule_set_deployment.alerting = FALSE
                /\ \E k \in 1..Len(item.update_mask.paths) :
                       item.update_mask.paths[k] = "alerting"

C29_Witness ==
    /\ BatchDone
    /\ Len(args.deployments) = 1
    /\ DOMAIN args.deployments[1] = RequiredKeys
    /\ args.deployments[1].enabled
    /\ Len(requests) = 1
    /\ requests[1].json.requests[1].curated_rule_set_deployment.alerting = FALSE
    /\ requests[1].json.requests[1].update_mask.paths = <<"alerting", "enabled">>

FirstMatchingIndex ==
    CHOOSE m \in MatchingIndexes : \A k \in MatchingIndexes : m <= k

ConfigKeys ==
    {"customer_id", "project_id", "region", "service_account", "start_time",
     "end_time", "time_window"}

\* an option that config set stores: given, and not the empty string
Supplied(a, k) == a[k] # None /\ (k = "time_window" \/ a[k][1] # "")

\* C28: a config set command stores the value of every option supplied to it
\* and leaves every other key as it was; a time_window of 0 counts as
\* supplied, an empty string for another option does not.
C28_ConfigSetFrame ==
    [][op' = "config set"
       => \A k \in ConfigKeys :
            IF Supplied(args', k)
              THEN k \in DOMAIN config' /\ config'[k] = args'[k][1]
              ELSE /\ (k \in DOMAIN config') = (k \in DOMAIN config)
                   /\ k \in DOMAIN config => config'[k] = config[k]]_vars

C28_Witness ==
    /\ op = "config set"
    /\ args.customer_id = None /\ args.region = <<"">> /\ args.end_time = <<"">>
    /\ args.time_window = <<0>>
    /\ args.project_id = None
    /\ DOMAIN config = {"customer_id", "time_window", "project_id"}
    /\ config.customer_id = "c2"
    /\ config.time_window = 0

====
